---- MODULE Spec2Model ----
(***************************************************************************)
(* Decision cycle of the LLM trading advisor: LLM call with bounded        *)
(* retries, ResponseNormalizer, RegimeClassifier, FlipFlopGuard and the    *)
(* ordered checks of DecisionValidator.                                    *)
(*                                                                         *)
(* Units.  Prices are in cents (a market price is a whole number of        *)
(* dollars, so x1.01 and x0.99 are exact).  A price of 0 stands for a      *)
(* field that is absent from the JSON object.  Portions and 24h changes    *)
(* are in percent.  Times are in minutes.                                  *)
(***************************************************************************)
EXTENDS Integers, Sequences, FiniteSets, TLC

VARIABLES
    pc,         \* position of the cycle
    env,        \* MarketSnapshot + AccountState + Position + FlipFlopState
    llm,        \* the response the provider gives when it answers
    endpoint,   \* provider endpoint in use, 1..Endpoints
    retry,      \* failed attempts on the current endpoint
    attempts,   \* LLM attempts started in this cycle
    norm,       \* result of ResponseNormalizer
    work,       \* ValidationResult list under construction
    submitted,  \* decision list handed to the execution engine
    cycles,     \* scheduler: every cycle started so far, one record each
    store,      \* FlipFlopGuard store, keyed by account and symbol
    engine,     \* execution engine: the decision lists it has accepted
    arg,        \* input of a component exercised on its own
    out,        \* result of that component
    panel,      \* WalletConfigPanel: its React state
    cards,      \* WalletCard: the form state of each environment's card
    manager,    \* PromptManager: its React state
    chat,       \* AiPromptChatModal: its React state
    modal,      \* ExchangeModal: its props, context values and React state
    pending,    \* requests of the mounted component awaiting their response
    server      \* what the backend holds for the mounted component

vars == <<pc, env, llm, endpoint, retry, attempts, norm, work, submitted,
          cycles, store, engine, arg, out,
          panel, cards, manager, chat, modal, pending, server>>

\* the user interface
frontend == <<panel, cards, manager, chat, modal, pending, server>>

\* what one account's cycle from the LLM call on leaves alone
scheduling == <<cycles, store, engine, arg, out, frontend>>

-----------------------------------------------------------------------------
(* Bounds *)

MaxLen == 2

-----------------------------------------------------------------------------
(* Program constants *)

\* monitored symbols, highest configured priority first
Monitored == <<"BTC", "ETH", "SOL">>

MonSet == {Monitored[i] : i \in 1..Len(Monitored)}

Benchmark == "BTC"

Accounts == {"acct1", "acct2"}

Anchors == {"BTC", "ETH", "SOL"}

Operations_mut == {"buy", "sell", "hold"}

Operations == {"buy", "sell", "hold", "close"}

TimeInForce == {"Ioc", "Gtc", "Alo"}

RequiredFields ==
    {"operation", "symbol", "target_portion_of_balance", "leverage",
     "time_in_force", "reason", "trading_strategy"}

BuyCapPct == 101

SellFloorPct == 99

MarginCapPct == 70

CooldownMinutes == 60

ReversalCap == 2

RetriesPerEndpoint == 3

Endpoints == 2

BtcCrashPct == 5

-----------------------------------------------------------------------------
(* Arithmetic helpers *)

Min(a, b) == IF a <= b THEN a ELSE b

Max(a, b) == IF a >= b THEN a ELSE b

Clamp(x, lo, hi) == Max(lo, Min(x, hi))

RECURSIVE SumOver(_, _)
SumOver(f, S) ==
    IF S = {} THEN 0
    ELSE LET x == CHOOSE y \in S : TRUE IN f[x] + SumOver(f, S \ {x})

SeqsUpTo(S, n) == UNION {[1..k -> S] : k \in 0..n}

-----------------------------------------------------------------------------
(* RegimeClassifier *)

RegimeLabel_mut(chg) ==
    LET sum == SumOver(chg, Anchors)
        n   == Cardinality(Anchors)
    IN  IF sum >= 3 * n THEN "BULLISH"
        ELSE IF sum >= (0 - 3) * n THEN "NEUTRAL"
        ELSE IF sum >= (0 - 7) * n THEN "BEARISH"
        ELSE "CRASH"

RegimeLabel(chg) ==
    LET sum == SumOver(chg, Anchors)
        n   == Cardinality(Anchors)
    IN  IF sum > 3 * n THEN "BULLISH"
        ELSE IF sum >= (0 - 3) * n THEN "NEUTRAL"
        ELSE IF sum >= (0 - 7) * n THEN "BEARISH"
        ELSE "CRASH"

LeverageCap_mut(label, maxlev) ==
    CASE label = "BULLISH" -> maxlev
      [] label = "NEUTRAL" -> 5
      [] label = "BEARISH" -> 5
      [] label = "CRASH"   -> 2

LeverageCap(label, maxlev) ==
    CASE label = "BULLISH" -> maxlev
      [] label = "NEUTRAL" -> 5
      [] label = "BEARISH" -> 3
      [] label = "CRASH"   -> 2

AllocationCap_mut(label) ==
    CASE label = "BULLISH" -> 50
      [] label = "NEUTRAL" -> 30
      [] label = "BEARISH" -> 20
      [] label = "CRASH"   -> 20

AllocationCap(label) ==
    CASE label = "BULLISH" -> 50
      [] label = "NEUTRAL" -> 30
      [] label = "BEARISH" -> 20
      [] label = "CRASH"   -> 10

\* stop-loss distance in hundredths of the ATR
StopMultiplier(label) ==
    CASE label = "BULLISH" -> 150
      [] label = "NEUTRAL" -> 150
      [] label = "BEARISH" -> 100
      [] label = "CRASH"   -> 75

Bias(label) ==
    CASE label = "BULLISH" -> "LONG-preferred"
      [] label = "NEUTRAL" -> "neutral"
      [] label = "BEARISH" -> "SHORT/HOLD"
      [] label = "CRASH"   -> "SHORT-only/HOLD"

\* the RegimeClassification of a snapshot's 24h changes
Classify(chg, maxlev) ==
    LET label == RegimeLabel(chg)
    IN  [kind |-> "regime", label |-> label,
         leverage_cap |-> LeverageCap(label, maxlev),
         allocation_cap_fraction |-> AllocationCap(label),
         stop_loss_atr_multiplier |-> StopMultiplier(label),
         directional_bias |-> Bias(label)]

BtcCrash_mut(chg) == chg[Benchmark] < 0 - (BtcCrashPct + 2)

BtcCrash(chg) == chg[Benchmark] < 0 - BtcCrashPct

-----------------------------------------------------------------------------
(* ResponseNormalizer.  A text is a sequence of tokens: "prose", "fence"   *)
(* (a markdown code-fence line), "json" (a brace block that is a document  *)
(* of the decision schema) and "block" (a brace block that is not).        *)

IsBlock(tok) == tok \in {"json", "block"}

StripFences(t) ==
    LET a == IF Len(t) > 0 /\ t[1] = "fence" THEN SubSeq(t, 2, Len(t)) ELSE t
    IN  IF Len(a) > 0 /\ a[Len(a)] = "fence" THEN SubSeq(a, 1, Len(a) - 1)
        ELSE a

LastBlock(t) ==
    LET idx == {i \in 1..Len(t) : IsBlock(t[i])}
    IN  IF idx = {} THEN t
        ELSE LET k == CHOOSE i \in idx : \A j \in idx : j <= i IN <<t[k]>>

SelectCandidate_mut(resp) ==
    IF StripFences(resp.content) = <<"json">> THEN resp.content
    ELSE IF StripFences(resp.reasoning) = <<"json">> THEN resp.reasoning
    ELSE IF resp.reasoning_content # <<>> THEN LastBlock(resp.reasoning_content)
    ELSE IF resp.content # <<>> THEN resp.content
    ELSE resp.reasoning

SelectCandidate(resp) ==
    IF resp.content # <<>> THEN resp.content
    ELSE IF resp.reasoning # <<>> THEN resp.reasoning
    ELSE IF resp.reasoning_content # <<>> THEN LastBlock(resp.reasoning_content)
    ELSE <<>>

ParsesAsSchema(t) == StripFences(t) = <<"json">>

Normalize(resp) ==
    LET text == SelectCandidate(resp)
    IN  IF text = <<>> THEN [kind |-> "EmptyResponseError", decisions |-> <<>>]
        ELSE IF ParsesAsSchema(text) THEN [kind |-> "ok", decisions |-> resp.payload]
        ELSE [kind |-> "ParseError", decisions |-> <<>>]

-----------------------------------------------------------------------------
(* ValidationResult: the decision plus its diagnostics *)

Diag(rule, field, original, final) ==
    [rule |-> rule, field |-> field, original_value |-> original,
     final_value |-> final]

ToResult(e) ==
    [symbol |-> e.symbol, operation |-> e.operation,
     target_portion_of_balance |-> e.target_portion_of_balance,
     leverage |-> e.leverage, max_price |-> e.max_price,
     min_price |-> e.min_price, time_in_force |-> e.time_in_force,
     take_profit_price |-> e.take_profit_price,
     stop_loss_price |-> e.stop_loss_price,
     why |-> "", diags |-> <<>>]

\* hold(reason): the entry is forced to hold and the rule is recorded
Hold(r, rule) ==
    [r EXCEPT !.operation = "hold", !.why = rule,
              !.diags = Append(@, Diag(rule, "operation", r.operation, "hold"))]

SynthHold_mut(sym, why) ==
    [symbol |-> sym, operation |-> "hold", target_portion_of_balance |-> 100,
     leverage |-> 1, max_price |-> 0, min_price |-> 0, time_in_force |-> "Ioc",
     take_profit_price |-> 0, stop_loss_price |-> 0,
     why |-> why, diags |-> <<>>]

\* hold(0) synthesized for a monitored symbol the input does not cover
SynthHold(sym, why) ==
    [symbol |-> sym, operation |-> "hold", target_portion_of_balance |-> 0,
     leverage |-> 1, max_price |-> 0, min_price |-> 0, time_in_force |-> "Ioc",
     take_profit_price |-> 0, stop_loss_price |-> 0,
     why |-> why, diags |-> <<>>]

SetField_mut(r, field, value, rule) == [r EXCEPT ![field] = value]

\* a field is given its checked value; a change is recorded as a diagnostic
SetField(r, field, value, rule) ==
    IF r[field] = value THEN r
    ELSE [r EXCEPT ![field] = value,
                   !.diags = Append(@, Diag(rule, field, r[field], value))]

\* the fail-safe decision set: hold for every monitored symbol
AllHold(why) == [i \in 1..Len(Monitored) |-> SynthHold(Monitored[i], why)]

-----------------------------------------------------------------------------
(* DecisionValidator, checks a..h and the correlation guard *)

\* which limit price an operation carries
UsesMaxPrice(op, side) == op = "buy" \/ (op = "close" /\ side = "short")

UsesMinPrice(op, side) == op = "sell" \/ (op = "close" /\ side = "long")

\* a. schema
SchemaOK(e, v) ==
    /\ e.missing = {}
    /\ e.operation \in Operations
    /\ e.time_in_force \in TimeInForce
    /\ e.symbol \in MonSet =>
          /\ UsesMaxPrice(e.operation, v.pos[e.symbol]) => e.max_price > 0
          /\ UsesMinPrice(e.operation, v.pos[e.symbol]) => e.min_price > 0

CheckSchema(e, v) ==
    IF SchemaOK(e, v) THEN ToResult(e) ELSE Hold(ToResult(e), "schema")

\* b. coverage: one entry per monitored symbol, in priority order
FirstFor(w, sym) ==
    LET idx == {i \in 1..Len(w) : w[i].symbol = sym}
    IN  IF idx = {} THEN SynthHold(sym, "coverage")
        ELSE w[CHOOSE i \in idx : \A j \in idx : i <= j]

Cover(w) == [i \in 1..Len(Monitored) |-> FirstFor(w, Monitored[i])]

\* c. price band
PriceCap_mut(market) == (market * (BuyCapPct + 9)) \div 100

PriceCap(market) == (market * BuyCapPct) \div 100

PriceFloor(market) == (market * SellFloorPct) \div 100

PriceBand(r, v) ==
    LET side == v.pos[r.symbol]
        a == IF UsesMaxPrice(r.operation, side)
             THEN SetField(r, "max_price",
                           Min(r.max_price, PriceCap(v.price[r.symbol])),
                           "price-band")
             ELSE r
    IN  IF UsesMinPrice(r.operation, side)
        THEN SetField(a, "min_price",
                      Max(a.min_price, PriceFloor(v.price[r.symbol])),
                      "price-band")
        ELSE a

\* d. leverage
LeverageLimit(v) == Min(v.maxlev, LeverageCap(RegimeLabel(v.chg), v.maxlev))

ClampLeverage(r, v) ==
    IF r.operation = "hold" THEN r
    ELSE SetField(r, "leverage", Clamp(r.leverage, 1, LeverageLimit(v)),
                  "leverage")

\* e. allocation
AllocationLimit(op, v) ==
    IF op = "close" THEN 100 ELSE AllocationCap(RegimeLabel(v.chg))

ClampAllocation(r, v) ==
    IF r.operation = "hold" THEN r
    ELSE SetField(r, "target_portion_of_balance",
                  Clamp(r.target_portion_of_balance, 0,
                        AllocationLimit(r.operation, v)),
                  "allocation")

\* f. aggregate margin
Accepted(w) == {i \in 1..Len(w) : w[i].operation \in {"buy", "sell"}}

\* position_value * leverage, in percent of a cent
EntryUsage(r, v) == r.target_portion_of_balance * v.avail * r.leverage

ProjectedUsage(w, v) ==
    SumOver([i \in 1..Len(w) |-> EntryUsage(w[i], v)], Accepted(w))

WithinMargin_mut(w, v) == ProjectedUsage(w, v) < (MarginCapPct + 15) * v.equity

WithinMargin(w, v) == ProjectedUsage(w, v) < MarginCapPct * v.equity

\* the entry of lowest configured priority: the last one in Monitored order
LowestPriority_mut(S) == CHOOSE i \in S : \A j \in S : i <= j

LowestPriority(S) == CHOOSE i \in S : \A j \in S : j <= i

RECURSIVE DemoteMargin(_, _)
DemoteMargin(w, v) ==
    IF WithinMargin(w, v) \/ Accepted(w) = {} THEN w
    ELSE LET k == LowestPriority(Accepted(w))
         IN  DemoteMargin([w EXCEPT ![k] = Hold(@, "aggregate-margin")], v)

\* g. flip-flop guard
Direction(op) == IF op = "buy" THEN "long" ELSE "short"

IsReversal(r, v) ==
    /\ r.operation \in {"buy", "sell"}
    /\ v.ff[r.symbol].last_dir # "none"
    /\ v.ff[r.symbol].last_dir # Direction(r.operation)

Elapsed(v, sym) == v.now - v.ff[sym].last_ts

ReversalAllowed_mut(v, sym) ==
    /\ Elapsed(v, sym) > CooldownMinutes
    /\ v.ff[sym].reversals <= ReversalCap

ReversalAllowed(v, sym) ==
    /\ Elapsed(v, sym) > CooldownMinutes
    /\ v.ff[sym].reversals < ReversalCap

FlipFlopGuard(r, v) ==
    IF IsReversal(r, v) /\ ~ReversalAllowed(v, r.symbol)
    THEN Hold(r, "flip-flop-cooldown") ELSE r

\* h. bracket consistency
NewPosition_mut(op) == op = "buy"

NewPosition(op) == op \in {"buy", "sell"}

ImpliedFill(r, v) == v.price[r.symbol]

BracketOK(r, v) ==
    /\ r.take_profit_price > 0
    /\ r.stop_loss_price > 0
    /\ IF r.operation = "buy"
       THEN /\ r.stop_loss_price < ImpliedFill(r, v)
            /\ ImpliedFill(r, v) < r.take_profit_price
       ELSE /\ r.take_profit_price < ImpliedFill(r, v)
            /\ ImpliedFill(r, v) < r.stop_loss_price

CheckBracket(r, v) ==
    IF NewPosition(r.operation) /\ ~BracketOK(r, v)
    THEN Hold(r, "missing-risk-controls") ELSE r

\* correlation guard
CorrelationGuard(r, v) ==
    IF BtcCrash(v.chg) /\ r.operation = "buy" /\ r.symbol # Benchmark
    THEN Hold(r, "correlation-guard") ELSE r

\* the ordered checks, applied to a whole raw decision list
ValidateAll(raw, v) ==
    LET a == Cover([i \in 1..Len(raw) |-> CheckSchema(raw[i], v)])
        c == [i \in 1..Len(a) |-> PriceBand(a[i], v)]
        d == [i \in 1..Len(c) |-> ClampLeverage(c[i], v)]
        e == [i \in 1..Len(d) |-> ClampAllocation(d[i], v)]
        f == DemoteMargin(e, v)
        g == [i \in 1..Len(f) |-> FlipFlopGuard(f[i], v)]
        h == [i \in 1..Len(g) |-> CheckBracket(g[i], v)]
    IN  [i \in 1..Len(h) |-> CorrelationGuard(h[i], v)]

-----------------------------------------------------------------------------
(* The decision cycle *)

NoResult == [kind |-> "none", decisions |-> <<>>]

NotSubmitted == [handed |-> FALSE, decisions |-> <<>>]

\* bounded retry policy: 3 tries per endpoint, 2 endpoints
RetryAgain_mut(r) == r < RetriesPerEndpoint

RetryAgain(r) == r + 1 < RetriesPerEndpoint

HasNextEndpoint(ep) == ep < Endpoints

\* invalid or empty answer: fall back to hold for every monitored symbol
FallbackDecisions_mut(kind) ==
    IF kind = "ParseError" THEN <<>> ELSE AllHold(kind)

FallbackDecisions(kind) == AllHold(kind)

\* retries exhausted on every endpoint: all-hold decision set
ExhaustedDecisions == AllHold("provider-unavailable")

\* the LLM call is started: the only suspension point of the cycle
StartAttempt ==
    /\ pc = "call"
    /\ attempts' = attempts + 1
    /\ pc' = "waiting"
    /\ UNCHANGED <<env, llm, endpoint, retry, norm, work, submitted>>
    /\ UNCHANGED scheduling

\* the provider answers within the timeout
AttemptResponds ==
    /\ pc = "waiting"
    /\ pc' = "normalize"
    /\ UNCHANGED <<env, llm, endpoint, retry, attempts, norm, work, submitted>>
    /\ UNCHANGED scheduling

\* the attempt times out or fails: retry, move to the next endpoint, or give up
AttemptFails ==
    /\ pc = "waiting"
    /\ IF RetryAgain(retry)
       THEN /\ retry' = retry + 1
            /\ endpoint' = endpoint
            /\ pc' = "call"
       ELSE IF HasNextEndpoint(endpoint)
       THEN /\ retry' = 0
            /\ endpoint' = endpoint + 1
            /\ pc' = "call"
       ELSE /\ retry' = retry + 1
            /\ endpoint' = endpoint
            /\ pc' = "exhausted"
    /\ UNCHANGED <<env, llm, attempts, norm, work, submitted>>
    /\ UNCHANGED scheduling

\* retries exhausted: all-hold decision set
RetriesExhausted ==
    /\ pc = "exhausted"
    /\ work' = ExhaustedDecisions
    /\ pc' = "submit"
    /\ UNCHANGED <<env, llm, endpoint, retry, attempts, norm, submitted>>
    /\ UNCHANGED scheduling

NormalizeResponse ==
    /\ pc = "normalize"
    /\ norm' = Normalize(llm)
    /\ IF norm'.kind = "ok"
       THEN /\ work' = norm'.decisions
            /\ pc' = "schema"
       ELSE /\ work' = FallbackDecisions(norm'.kind)
            /\ pc' = "submit"
    /\ UNCHANGED <<env, llm, endpoint, retry, attempts, submitted>>
    /\ UNCHANGED scheduling

Step(from, to, result) ==
    /\ pc = from
    /\ work' = result
    /\ pc' = to
    /\ UNCHANGED <<env, llm, endpoint, retry, attempts, norm, submitted>>
    /\ UNCHANGED scheduling

ValidateSchema == Step("schema", "coverage", [i \in 1..Len(work) |-> CheckSchema(work[i], env)])

ValidateCoverage == Step("coverage", "band", Cover(work))

ValidatePriceBand == Step("band", "leverage", [i \in 1..Len(work) |-> PriceBand(work[i], env)])

ValidateLeverage ==
    Step("leverage", "allocation", [i \in 1..Len(work) |-> ClampLeverage(work[i], env)])

ValidateAllocation ==
    Step("allocation", "margin", [i \in 1..Len(work) |-> ClampAllocation(work[i], env)])

ValidateMargin == Step("margin", "flipflop", DemoteMargin(work, env))

ValidateFlipFlop ==
    Step("flipflop", "bracket", [i \in 1..Len(work) |-> FlipFlopGuard(work[i], env)])

ValidateBracket ==
    Step("bracket", "correlation", [i \in 1..Len(work) |-> CheckBracket(work[i], env)])

ValidateCorrelation ==
    Step("correlation", "submit", [i \in 1..Len(work) |-> CorrelationGuard(work[i], env)])

\* the decision set is handed to the execution engine
Submit ==
    /\ pc = "submit"
    /\ submitted' = [handed |-> TRUE, decisions |-> work]
    /\ pc' = "done"
    /\ UNCHANGED <<env, llm, endpoint, retry, attempts, norm, work>>
    /\ UNCHANGED scheduling

Next ==
    \/ StartAttempt
    \/ AttemptResponds
    \/ AttemptFails
    \/ RetriesExhausted
    \/ NormalizeResponse
    \/ ValidateSchema
    \/ ValidateCoverage
    \/ ValidatePriceBand
    \/ ValidateLeverage
    \/ ValidateAllocation
    \/ ValidateMargin
    \/ ValidateFlipFlop
    \/ ValidateBracket
    \/ ValidateCorrelation
    \/ Submit

-----------------------------------------------------------------------------
(* Inputs *)

Price == [s \in MonSet |->
            CASE s = "BTC" -> 9700000 [] s = "ETH" -> 350000 [] s = "SOL" -> 15000]

NoTrade == [last_dir |-> "none", last_ts |-> 0, reversals |-> 0]

BaseEnv ==
    [price |-> Price,
     chg |-> [s \in MonSet |-> 0],
     pos |-> [s \in MonSet |-> "none"],
     equity |-> 100000, avail |-> 80000, maxlev |-> 10,
     now |-> 1000,
     ff |-> [s \in MonSet |-> NoTrade]]

\* a well-formed buy on sym at the market
Buy(sym) ==
    [symbol |-> sym, operation |-> "buy", target_portion_of_balance |-> 10,
     leverage |-> 2, max_price |-> Price[sym], min_price |-> 0,
     time_in_force |-> "Ioc",
     take_profit_price |-> (Price[sym] * 103) \div 100,
     stop_loss_price |-> (Price[sym] * 98) \div 100,
     missing |-> {}]

Sell(sym) ==
    [Buy(sym) EXCEPT !.operation = "sell", !.max_price = 0,
                     !.min_price = Price[sym],
                     !.take_profit_price = (Price[sym] * 97) \div 100,
                     !.stop_loss_price = (Price[sym] * 102) \div 100]

HoldEntry(sym) ==
    [Buy(sym) EXCEPT !.operation = "hold", !.target_portion_of_balance = 0,
                     !.leverage = 1, !.max_price = 0,
                     !.take_profit_price = 0, !.stop_loss_price = 0]

\* a component of the user interface that is not mounted
Unmounted == [mounted |-> FALSE]

NoServer == [requests |-> 0]

\* no component of the user interface is mounted
NoFrontend ==
    /\ panel = Unmounted
    /\ cards = Unmounted
    /\ manager = Unmounted
    /\ chat = Unmounted
    /\ modal = Unmounted
    /\ pending = <<>>
    /\ server = NoServer

\* no cycle scheduled, nothing traded, no component exercised on its own
NoScheduling ==
    /\ cycles = <<>>
    /\ store = [a \in Accounts |-> [s \in MonSet |-> NoTrade]]
    /\ engine = <<>>
    /\ arg = [kind |-> "none"]
    /\ out = [kind |-> "none"]
    /\ NoFrontend

Answer(content, reasoning, reasoning_content, payload) ==
    [content |-> content, reasoning |-> reasoning,
     reasoning_content |-> reasoning_content, payload |-> payload]

\* responses every run includes: empty, unparsable, fenced, fallback fields
FixedResponses ==
    {Answer(<<>>, <<>>, <<>>, <<>>),
     Answer(<<"prose">>, <<>>, <<"json">>, <<Buy("BTC")>>),
     Answer(<<>>, <<"block">>, <<"json">>, <<Buy("BTC")>>),
     Answer(<<"fence", "json", "fence">>, <<>>, <<>>, <<Sell("ETH")>>),
     Answer(<<>>, <<"json">>, <<>>, <<Buy("ETH")>>),
     Answer(<<>>, <<>>, <<"prose", "block", "prose", "json">>, <<Buy("SOL")>>),
     Answer(<<>>, <<>>, <<"prose", "json", "block">>, <<Buy("SOL")>>)}

Responses(payloads) ==
    FixedResponses \cup {Answer(<<"json">>, <<>>, <<>>, p) : p \in payloads}

\* the cycle is about to call the provider, which will answer with one of
\* the fixed responses or with a document holding one of the payloads
InitFrom(envs, payloads) ==
    /\ pc = "call"
    /\ env \in envs
    /\ llm \in Responses(payloads)
    /\ endpoint = 1
    /\ retry = 0
    /\ attempts = 0
    /\ norm = NoResult
    /\ work = <<>>
    /\ submitted = NotSubmitted
    /\ NoScheduling

InitWith(envs, entries) == InitFrom(envs, SeqsUpTo(entries, MaxLen))

Init == InitWith({BaseEnv}, {Buy(s) : s \in MonSet} \cup {Sell(s) : s \in MonSet}
                             \cup {HoldEntry(s) : s \in MonSet})

Spec == Init /\ [][Next]_vars

-----------------------------------------------------------------------------
(* C1: price band *)

WithLimits(e, px) == [e EXCEPT !.max_price = px, !.min_price = px]

Close(sym) == [Sell(sym) EXCEPT !.operation = "close"]

\* requested limits on both sides of the band of each symbol
BandEntries ==
    {WithLimits(e, px) :
        e \in {Buy("BTC"), Sell("BTC"), Close("BTC")},
        px \in {9900000, 9600000}}
    \cup
    {WithLimits(e, px) :
        e \in {Buy("ETH"), Sell("ETH"), Close("ETH")},
        px \in {360000, 340000}}

BandEnvs ==
    {[BaseEnv EXCEPT !.pos = [s \in MonSet |-> side]] :
        side \in {"none", "long", "short"}}

InitBand == InitWith(BandEnvs, BandEntries)

SpecBand == InitBand /\ [][Next]_vars

\* C1: the price-band step keeps every entry's operation and brings the
\* limit price into the band: max_price = min(requested, market x 1.01) for
\* a buy and for the close of a short, min_price = max(requested,
\* market x 0.99) for a sell and for the close of a long; the step never
\* turns an entry into hold.
C1_PriceBandStep ==
    [][pc = "band" =>
        /\ Len(work') = Len(work)
        /\ \A i \in 1..Len(work) :
             LET before == work[i]
                 after  == work'[i]
                 market == env.price[before.symbol]
                 side   == env.pos[before.symbol]
             IN  /\ after.operation = before.operation
                 /\ (before.operation = "buy"
                       \/ (before.operation = "close" /\ side = "short"))
                    => after.max_price =
                         Min(before.max_price, (market * 101) \div 100)
                 /\ (before.operation = "sell"
                       \/ (before.operation = "close" /\ side = "long"))
                    => after.min_price =
                         Max(before.min_price, (market * 99) \div 100)]_vars

\* a buy at market 97000 asking 99000 and a sell at market 3500 asking 3400
\* have gone through the step: 97970 and 3465
C1_Witness ==
    /\ pc = "leverage"
    /\ norm.decisions = <<WithLimits(Buy("BTC"), 9900000),
                          WithLimits(Sell("ETH"), 340000)>>
    /\ work[1].operation = "buy" /\ work[1].max_price = 9797000
    /\ work[2].operation = "sell" /\ work[2].min_price = 346500

-----------------------------------------------------------------------------
(* Shared by the claims about the validator's output *)

Validated == pc \in {"submit", "done"}

Output == IF pc = "done" THEN submitted.decisions ELSE work

ChangeSum == env.chg["BTC"] + env.chg["ETH"] + env.chg["SOL"]

Regime(c) == [BaseEnv EXCEPT !.chg = [s \in MonSet |-> c]]

-----------------------------------------------------------------------------
(* C2: leverage *)

WithLeverage(e, l) == [e EXCEPT !.leverage = l]

LeverageEntries ==
    {WithLeverage(e, l) :
        e \in {Buy("BTC"), Sell("ETH")}, l \in {0 - 1, 0, 1, 4, 60}}

LeverageEnvs ==
    {[Regime(c) EXCEPT !.maxlev = m] : c \in {4, 0, 0 - 4, 0 - 8}, m \in {2, 10}}

InitLeverage == InitWith(LeverageEnvs, LeverageEntries)

SpecLeverage == InitLeverage /\ [][Next]_vars

\* C2: after validation every entry that is still buy or sell has a
\* leverage between 1 and min(account max leverage, regime cap), the regime
\* cap being the account maximum (BULLISH), 5 (NEUTRAL), 3 (BEARISH) or
\* 2 (CRASH).
C2_LeverageBound ==
    Validated =>
        \A i \in 1..Len(Output) :
            Output[i].operation \in {"buy", "sell"} =>
                /\ 1 <= Output[i].leverage
                /\ Output[i].leverage <= env.maxlev
                /\ ChangeSum <= 9 => Output[i].leverage <= 5
                /\ ChangeSum < 0 - 9 => Output[i].leverage <= 3
                /\ ChangeSum < 0 - 21 => Output[i].leverage <= 2

\* a buy asking 60x came out at the NEUTRAL cap and a sell asking 0x at 1x
C2_Witness ==
    /\ pc = "done"
    /\ ChangeSum = 0 /\ env.maxlev = 10
    /\ norm.decisions = <<WithLeverage(Buy("BTC"), 60),
                          WithLeverage(Sell("ETH"), 0)>>
    /\ Output[1].operation = "buy" /\ Output[1].leverage = 5
    /\ Output[2].operation = "sell" /\ Output[2].leverage = 1

-----------------------------------------------------------------------------
(* C3: allocation *)

WithPortion(e, p) == [e EXCEPT !.target_portion_of_balance = p, !.leverage = 1]

AllocationEntries ==
    {WithPortion(e, p) :
        e \in {Buy("BTC"), Sell("ETH"), Close("SOL")},
        p \in {0 - 10, 25, 60, 120}}

AllocationEnvs ==
    {[Regime(c) EXCEPT !.pos["SOL"] = "long"] : c \in {4, 0, 0 - 4, 0 - 8}}

InitAllocation == InitWith(AllocationEnvs, AllocationEntries)

SpecAllocation == InitAllocation /\ [][Next]_vars

\* C3: after validation every buy or sell has a portion between 0 and the
\* regime's allocation cap (50, 30, 20, 10 percent) and every close a portion
\* between 0 and 100 percent.
C3_AllocationBound ==
    Validated =>
        \A i \in 1..Len(Output) :
            LET p == Output[i].target_portion_of_balance
            IN  /\ Output[i].operation \in {"buy", "sell"} =>
                    /\ 0 <= p /\ p <= 50
                    /\ ChangeSum <= 9 => p <= 30
                    /\ ChangeSum < 0 - 9 => p <= 20
                    /\ ChangeSum < 0 - 21 => p <= 10
                /\ Output[i].operation = "close" => 0 <= p /\ p <= 100

\* CRASH regime: a buy asking 60% came out at 10%, a close asking 120% at 100%
C3_Witness ==
    /\ pc = "done"
    /\ ChangeSum = 0 - 24
    /\ norm.decisions = <<WithPortion(Buy("BTC"), 60),
                          WithPortion(Close("SOL"), 120)>>
    /\ Output[1].operation = "buy" /\ Output[1].target_portion_of_balance = 10
    /\ Output[3].operation = "close"
    /\ Output[3].target_portion_of_balance = 100

-----------------------------------------------------------------------------
(* C4: aggregate margin *)

Sized(e, p, l) == [e EXCEPT !.target_portion_of_balance = p, !.leverage = l]

MarginEntries ==
    {Sized(e, ps[1], ps[2]) :
        e \in {Buy("BTC"), Sell("ETH"), Buy("SOL")},
        ps \in {<<10, 2>>, <<10, 5>>, <<35, 2>>, <<30, 3>>}}

MarginEnvs ==
    {[Regime(c) EXCEPT !.avail = a] : c \in {4, 0}, a \in {100000, 80000}}

InitMargin == InitWith(MarginEnvs, MarginEntries)

SpecMargin == InitMargin /\ [][Next]_vars

\* C4: when the validator returns, the projected margin usage of the
\* entries it still accepts, sum(position_value * leverage) / equity, is at
\* most 0.70.
C4_MarginBound ==
    Validated =>
        SumOver([i \in 1..Len(Output) |->
                    Output[i].target_portion_of_balance * env.avail
                        * Output[i].leverage],
                {i \in 1..Len(Output) : Output[i].operation \in {"buy", "sell"}})
            <= 70 * env.equity

\* two entries of 50% usage each: the lower-priority one was demoted
C4_Witness ==
    /\ pc = "done"
    /\ env.avail = 100000
    /\ norm.decisions = <<Sized(Buy("BTC"), 10, 5), Sized(Sell("ETH"), 10, 5)>>
    /\ Output[1].operation = "buy"
    /\ Output[2].operation = "hold" /\ Output[2].why = "aggregate-margin"

-----------------------------------------------------------------------------
(* C5: coverage *)

Unmonitored == [Buy("BTC") EXCEPT !.symbol = "XRP"]

NoSymbol == [Buy("BTC") EXCEPT !.symbol = "", !.missing = {"symbol"}]

BadEnum == [Buy("ETH") EXCEPT !.time_in_force = "Fok"]

NoLeverage == [Sell("SOL") EXCEPT !.missing = {"leverage"}]

CoverageEntries ==
    {Buy("BTC"), Sell("BTC"), HoldEntry("ETH"), Buy("ETH"), Sell("SOL"),
     Unmonitored, NoSymbol, BadEnum, NoLeverage}

InitCoverage == InitWith({BaseEnv}, CoverageEntries)

SpecCoverage == InitCoverage /\ [][Next]_vars

RawSymbols == {norm.decisions[i].symbol : i \in 1..Len(norm.decisions)}

\* C5: the validator's output has exactly one entry for each monitored
\* symbol and none for any other, whatever the input list; a monitored
\* symbol absent from the input is a hold with portion 0.
C5_OnePerSymbol ==
    Validated =>
        /\ \A s \in MonSet :
             Cardinality({i \in 1..Len(Output) : Output[i].symbol = s}) = 1
        /\ \A i \in 1..Len(Output) :
             /\ Output[i].symbol \in MonSet
             /\ Output[i].symbol \notin RawSymbols =>
                  /\ Output[i].operation = "hold"
                  /\ Output[i].target_portion_of_balance = 0

\* two entries for BTC and one for an unmonitored symbol went in
C5_Witness ==
    /\ pc = "done"
    /\ Len(norm.decisions) = 2
    /\ norm.decisions[1].symbol = "BTC" /\ norm.decisions[2].symbol = "BTC"
    /\ Output[1].operation = "buy"
    /\ Output[2].operation = "hold" /\ Output[2].why = "coverage"

-----------------------------------------------------------------------------
(* C6: flip-flop guard *)

\* the last confirmed trade on BTC: direction, minutes ago, 24h reversals
Traded(dir, ago, n) ==
    [BaseEnv EXCEPT !.ff["BTC"] =
        [last_dir |-> dir, last_ts |-> BaseEnv.now - ago, reversals |-> n]]

FlipFlopEnvs ==
    {BaseEnv} \cup
    {Traded(dir, ago, n) :
        dir \in {"long", "short"}, ago \in {30, 60, 61}, n \in {0, 1, 2}}

FlipFlopEntries ==
    {Buy("BTC"), Sell("BTC"), Sell("ETH"), HoldEntry("BTC"),
     [Sell("BTC") EXCEPT !.time_in_force = "Fok"]}

InitFlipFlop == InitWith(FlipFlopEnvs, FlipFlopEntries)

SpecFlipFlop == InitFlipFlop /\ [][Next]_vars

\* the entry opens exposure opposite to the symbol's last confirmed trade
Opposite(r) ==
    /\ r.operation \in {"buy", "sell"}
    /\ env.ff[r.symbol].last_dir # "none"
    /\ env.ff[r.symbol].last_dir # (IF r.operation = "buy" THEN "long" ELSE "short")

MinutesSince(sym) == env.now - env.ff[sym].last_ts

\* the flip-flop check vetoes exactly the opposite entries made less than
\* 60 minutes after the last trade (atSixty: or exactly 60 minutes after it)
\* or with 2 or more reversals in 24h, and no such entry is output as buy or
\* sell
Veto(minutes, reversals, atSixty) ==
    \/ minutes < 60
    \/ atSixty /\ minutes = 60
    \/ reversals >= 2

FlipFlopStepVetoes(atSixty) ==
    /\ pc = "flipflop" =>
        \A i \in 1..Len(work) :
            LET before == work[i]
                after  == work'[i]
            IN  IF /\ Opposite(before)
                   /\ Veto(MinutesSince(before.symbol),
                           env.ff[before.symbol].reversals, atSixty)
                THEN after.operation = "hold" /\ after.why = "flip-flop-cooldown"
                ELSE after = before
    /\ pc' = "done" =>
        \A i \in 1..Len(work') :
            ~(/\ Opposite(work'[i])
              /\ Veto(MinutesSince(work'[i].symbol),
                      env.ff[work'[i].symbol].reversals, atSixty))

-----------------------------------------------------------------------------
(* C7: bracket consistency *)

Bracket(e, tp, sl) ==
    [e EXCEPT !.take_profit_price = tp, !.stop_loss_price = sl]

NoTakeProfit(e) == [e EXCEPT !.take_profit_price = 0]

NoStopLoss(e) == [e EXCEPT !.stop_loss_price = 0]

Inverted(e) == Bracket(e, e.stop_loss_price, e.take_profit_price)

BracketEntries ==
    {Buy("BTC"), NoTakeProfit(Buy("BTC")), NoStopLoss(Buy("BTC")),
     Inverted(Buy("BTC")), Sell("ETH"), NoTakeProfit(Sell("ETH")),
     Inverted(Sell("ETH")),
     Bracket(Buy("SOL"), Price["SOL"], Price["SOL"] - 100)}

BracketEnvs == {BaseEnv, Traded("short", 30, 0)}

InitBracket == InitWith(BracketEnvs, BracketEntries)

SpecBracket == InitBracket /\ [][Next]_vars

\* take-profit or stop-loss missing, or not on their sides of the fill price
BadBracket(r) ==
    \/ r.take_profit_price <= 0
    \/ r.stop_loss_price <= 0
    \/ /\ r.operation = "buy"
       /\ ~(r.stop_loss_price < env.price[r.symbol]
              /\ env.price[r.symbol] < r.take_profit_price)
    \/ /\ r.operation = "sell"
       /\ ~(r.take_profit_price < env.price[r.symbol]
              /\ env.price[r.symbol] < r.stop_loss_price)

FirstRaw(sym) ==
    norm.decisions[CHOOSE i \in 1..Len(norm.decisions) :
        /\ norm.decisions[i].symbol = sym
        /\ \A j \in 1..(i - 1) : norm.decisions[j].symbol # sym]

\* an input buy or sell for the symbol of output entry r had a missing or
\* inverted bracket
RawBadBracket(r) ==
    /\ r.symbol \in RawSymbols
    /\ FirstRaw(r.symbol).operation \in {"buy", "sell"}
    /\ BadBracket(FirstRaw(r.symbol))

\* C7 as stated: every output buy or sell carries a take-profit and a
\* stop-loss on their sides of the implied fill price, and an input buy or
\* sell with a missing or inverted bracket is output as
\* hold("missing-risk-controls").
C7_Original ==
    Validated =>
        \A i \in 1..Len(Output) :
            /\ Output[i].operation \in {"buy", "sell"} => ~BadBracket(Output[i])
            /\ RawBadBracket(Output[i]) =>
                  /\ Output[i].operation = "hold"
                  /\ Output[i].why = "missing-risk-controls"

\* C7 amended: every output buy or sell carries a take-profit and a
\* stop-loss on their sides of the implied fill price (stop < fill < target
\* for a long, target < fill < stop for a short); the bracket check turns
\* an entry that reaches it as a buy or sell with a missing or inverted
\* bracket into hold("missing-risk-controls"); an input buy or sell with
\* such a bracket is always output as hold, with the reason of the first
\* check that rejected it.
C7_Bracket ==
    /\ [](Validated =>
            \A i \in 1..Len(Output) :
                /\ Output[i].operation \in {"buy", "sell"} => ~BadBracket(Output[i])
                /\ RawBadBracket(Output[i])
                   => /\ Output[i].operation = "hold"
                      /\ Output[i].why \in
                           {"schema", "aggregate-margin", "flip-flop-cooldown",
                            "missing-risk-controls"})
    /\ [][pc = "bracket" =>
            \A i \in 1..Len(work) :
                IF work[i].operation \in {"buy", "sell"} /\ BadBracket(work[i])
                THEN /\ work'[i].operation = "hold"
                     /\ work'[i].why = "missing-risk-controls"
                ELSE work'[i] = work[i]]_vars

\* a short without take-profit was rejected next to a well-formed long
C7_Witness ==
    /\ pc = "done"
    /\ norm.decisions = <<Buy("BTC"), NoTakeProfit(Sell("ETH"))>>
    /\ env = BaseEnv
    /\ Output[1].operation = "buy"
    /\ Output[2].operation = "hold" /\ Output[2].why = "missing-risk-controls"

-----------------------------------------------------------------------------
(* C8: correlation guard *)

CorrelationEnvs ==
    {[BaseEnv EXCEPT !.chg = [s \in MonSet |-> IF s = "BTC" THEN b ELSE a]] :
        b \in {0 - 4, 0 - 5, 0 - 6, 0 - 8}, a \in {0 - 8, 0, 10}}

CorrelationEntries ==
    {Buy("BTC"), Buy("ETH"), Buy("SOL"), Sell("ETH"), NoTakeProfit(Buy("ETH"))}

InitCorrelation == InitWith(CorrelationEnvs, CorrelationEntries)

SpecCorrelation == InitCorrelation /\ [][Next]_vars

\* C8: while the benchmark's 24h change is below -5%, the validated output
\* has no buy on a symbol other than the benchmark, whatever the regime.
C8_NoAltLongInBtcCrash ==
    (Validated /\ env.chg["BTC"] < 0 - 5) =>
        \A i \in 1..Len(Output) :
            ~(Output[i].operation = "buy" /\ Output[i].symbol # "BTC")

\* BTC -6% with the average in BULLISH: the long on ETH was refused, the
\* long on BTC went through
C8_Witness ==
    /\ pc = "done"
    /\ env.chg["BTC"] = 0 - 6 /\ ChangeSum > 9
    /\ norm.decisions = <<Buy("ETH"), Buy("BTC")>>
    /\ Output[1].operation = "buy"
    /\ Output[2].operation = "hold" /\ Output[2].why = "correlation-guard"

-----------------------------------------------------------------------------
(* C9: normalizer failure *)

AllEmpty ==
    llm.content = <<>> /\ llm.reasoning = <<>> /\ llm.reasoning_content = <<>>

HoldForEverySymbol(ds) ==
    /\ \A s \in MonSet : \E i \in 1..Len(ds) : ds[i].symbol = s
    /\ \A i \in 1..Len(ds) : ds[i].operation = "hold"

\* the text the fallback chain selects
Selected ==
    IF llm.content # <<>> THEN llm.content
    ELSE IF llm.reasoning # <<>> THEN llm.reasoning
    ELSE llm.reasoning_content

\* a document of the decision schema, possibly wrapped in code fences; in
\* the extended reasoning field, the last brace block of the text
SelectedIsValid ==
    IF llm.content # <<>> \/ llm.reasoning # <<>>
    THEN Selected \in {<<"json">>, <<"fence", "json">>, <<"json", "fence">>,
                       <<"fence", "json", "fence">>}
    ELSE \E i \in 1..Len(Selected) :
            /\ Selected[i] = "json"
            /\ \A j \in (i + 1)..Len(Selected) :
                   Selected[j] \notin {"json", "block"}

\* C9: the normalizer fails exactly when all three candidates are empty
\* (EmptyResponseError) or the selected one is not a document of the schema
\* (ParseError), with no other kind of failure, and the cycle then continues
\* to a decision set that is hold for every monitored symbol: nothing else
\* is handed to the execution engine.
C9_FailSafe ==
    /\ norm.kind # "none" => (norm.kind = "ok" <=> SelectedIsValid)
    /\ norm.kind \notin {"none", "ok"} =>
        /\ norm.kind \in {"EmptyResponseError", "ParseError"}
        /\ norm.kind = "EmptyResponseError" <=> AllEmpty
        /\ pc \in {"submit", "done"}
        /\ HoldForEverySymbol(work)
        /\ submitted.handed => HoldForEverySymbol(submitted.decisions)

\* prose in the primary content, a buy in the payload: ParseError, all hold
C9_Witness ==
    /\ pc = "done"
    /\ norm.kind = "ParseError"
    /\ llm.content = <<"prose">> /\ llm.payload = <<Buy("BTC")>>
    /\ submitted.handed /\ HoldForEverySymbol(submitted.decisions)

-----------------------------------------------------------------------------
(* C10: termination *)

\* every attempt ends by response or timeout and every step of the cycle
\* is taken
SpecLive == Init /\ [][Next]_vars /\ WF_vars(Next)

\* C10: the LLM call is attempted at most 3 x 2 times, every attempt ends,
\* the cycle reaches its end, and after a cycle whose attempts all failed
\* the decision set handed over is hold for every monitored symbol.
C10_CycleTerminates ==
    /\ [](attempts <= 6)
    /\ (pc = "waiting") ~> (pc # "waiting")
    /\ <>(pc = "done")
    /\ [](pc = "done" /\ norm.kind = "none" =>
            /\ attempts = 6
            /\ submitted.handed
            /\ HoldForEverySymbol(submitted.decisions))

\* all six attempts failed and the cycle ended with the all-hold set
C10_Witness ==
    /\ pc = "done"
    /\ attempts = 6 /\ endpoint = 2
    /\ norm.kind = "none"
    /\ submitted.handed /\ HoldForEverySymbol(submitted.decisions)

-----------------------------------------------------------------------------
(* TemplateRenderer.  A template is the sequence of its placeholders; a    *)
(* placeholder is {identifier} or {identifier}(count).  The count is kept  *)
(* as written: given or not, an integer literal or not, and its value.     *)

DefaultCount == 500

HardCap == 1500

\* identifiers the resolver registry knows
Registry == {"BTC_klines_15m", "ETH_klines_1h"}

Placeholder(id, given, integer, value) ==
    [id |-> id, given |-> given, integer |-> integer, value |-> value]

\* {id}
Plain(id) == Placeholder(id, FALSE, FALSE, 0)

\* {id}(n)
Counted(id, n) == Placeholder(id, TRUE, TRUE, n)

\* {id}(2.5), {id}(abc)
Miscounted(id) == Placeholder(id, TRUE, FALSE, 0)

CountValid_mut(ph) == ph.integer /\ 1 <= ph.value

\* count, if present, is a positive integer not above the hard cap
CountValid(ph) == ph.integer /\ 1 <= ph.value /\ ph.value <= HardCap

EffectiveCount_mut(ph) == DefaultCount

EffectiveCount(ph) == IF ph.given THEN ph.value ELSE DefaultCount

\* the stub resolver: count candle records of the identifier
Resolve(id, count) == [k \in 1..count |-> [id |-> id, candle |-> k]]

\* an unresolved placeholder left as it is (preview mode)
Literal(id) == <<[id |-> id, candle |-> 0]>>

RenderFailure(kind) == [kind |-> kind, text |-> <<>>]

RECURSIVE RenderFrom(_, _, _, _)
RenderFrom(t, i, strict, text) ==
    IF i > Len(t) THEN [kind |-> "ok", text |-> text]
    ELSE IF t[i].given /\ ~CountValid(t[i]) THEN RenderFailure("ValidationError")
    ELSE IF t[i].id \notin Registry
         THEN IF strict THEN RenderFailure("MissingVariableError")
              ELSE RenderFrom(t, i + 1, strict, text \o Literal(t[i].id))
    ELSE RenderFrom(t, i + 1, strict,
                    text \o Resolve(t[i].id, EffectiveCount(t[i])))

\* left to right, each placeholder resolved once
Render(t, strict) == RenderFrom(t, 1, strict, <<>>)

\* TemplateError: the renderer failed on a bad or unresolved placeholder
IsTemplateError(r) == r.kind \in {"ValidationError", "MissingVariableError"}

-----------------------------------------------------------------------------
(* The scheduler: one cycle per account per tick, cycles of different      *)
(* accounts in parallel, the execution engine and its confirmations.       *)

MaxCycles == 2

\* a cycle that has not reached its end
InFlight(c) == c.phase \in {"render", "suspended", "validate", "handover", "executing"}

\* a cycle whose output has not been handed over can still be cancelled
Cancellable_mut(c) == InFlight(c)

Cancellable(c) == c.phase \in {"render", "suspended", "validate", "handover"}

CyclesOf(cs, a) == {i \in 1..Len(cs) : cs[i].acct = a /\ InFlight(cs[i])}

MayStart_mut(cs, a) == TRUE

\* a new cycle may start for the account unless one has handed its output
\* over and is still being executed
MayStart(cs, a) == \A i \in CyclesOf(cs, a) : Cancellable(cs[i])

NewCycle(a, t) ==
    [acct |-> a, phase |-> "render", template |-> t, raw |-> <<>>,
     decisions |-> <<>>, error |-> "none", validations |-> 0]

\* the snapshot a cycle validates against: the store of its account, and
\* the time of its tick
SnapshotFor(id, c, st) ==
    [BaseEnv EXCEPT !.ff = st[c.acct], !.now = BaseEnv.now + 45 * id]

\* what the validator does to the store: nothing
StoreAfterValidation_mut(st, a, ds, now) ==
    [st EXCEPT ![a] =
        [s \in MonSet |->
            IF \E i \in 1..Len(ds) :
                  ds[i].symbol = s /\ ds[i].operation \in {"buy", "sell"}
            THEN [st[a][s] EXCEPT !.last_ts = now]
            ELSE st[a][s]]]

StoreAfterValidation(st, a, ds, now) == st

\* execution confirmation of a filled buy or sell
ConfirmTrade(ff, dir, ts) ==
    [last_dir |-> dir, last_ts |-> ts,
     reversals |-> IF ff.last_dir \notin {"none", dir}
                   THEN ff.reversals + 1 ELSE ff.reversals]

\* what the scheduler's steps leave alone
CycleFrame ==
    <<pc, env, llm, endpoint, retry, attempts, norm, work, submitted, arg, out,
      frontend>>

\* a scheduling tick for the account: a cycle that has not handed its output
\* over is cancelled, and the new cycle starts
Tick(a, t) ==
    /\ Len(cycles) < MaxCycles
    /\ MayStart(cycles, a)
    /\ cycles' = Append([i \in 1..Len(cycles) |->
                            IF cycles[i].acct = a /\ Cancellable(cycles[i])
                            THEN [cycles[i] EXCEPT !.phase = "cancelled"]
                            ELSE cycles[i]],
                        NewCycle(a, t))
    /\ UNCHANGED <<store, engine>>
    /\ UNCHANGED CycleFrame

\* render the prompt and start the LLM call; a TemplateError aborts the cycle
RenderPrompt(id) ==
    /\ cycles[id].phase = "render"
    /\ LET r == Render(cycles[id].template, TRUE)
       IN  cycles' = [cycles EXCEPT ![id] =
                IF IsTemplateError(r)
                THEN [@ EXCEPT !.phase = "aborted", !.error = "TemplateError"]
                ELSE [@ EXCEPT !.phase = "suspended"]]
    /\ UNCHANGED <<store, engine>>
    /\ UNCHANGED CycleFrame

\* the provider answers
ProviderAnswers(id, resp) ==
    /\ cycles[id].phase = "suspended"
    /\ cycles' = [cycles EXCEPT ![id] = [@ EXCEPT !.phase = "validate", !.raw = resp]]
    /\ UNCHANGED <<store, engine>>
    /\ UNCHANGED CycleFrame

\* the LLM call failed after its retries on every endpoint
ProviderFails(id) ==
    /\ cycles[id].phase = "suspended"
    /\ cycles' = [cycles EXCEPT ![id] =
            [@ EXCEPT !.phase = "handover", !.error = "ProviderError",
                      !.decisions = ExhaustedDecisions]]
    /\ UNCHANGED <<store, engine>>
    /\ UNCHANGED CycleFrame

\* what normalizing and validating the answer gives
Decide(resp, v) ==
    LET n == Normalize(resp)
    IN  IF n.kind = "ok" THEN ValidateAll(n.decisions, v)
        ELSE FallbackDecisions(n.kind)

\* normalize and validate the answer; validation may be repeated before the
\* output is handed over
NormalizeAndValidate(id) ==
    /\ \/ cycles[id].phase = "validate"
       \/ cycles[id].phase = "handover" /\ cycles[id].validations = 1
    /\ LET v == SnapshotFor(id, cycles[id], store)
           ds == Decide(cycles[id].raw, v)
       IN  /\ cycles' = [cycles EXCEPT ![id] =
                   [@ EXCEPT !.phase = "handover", !.decisions = ds,
                             !.validations = @ + 1]]
           /\ store' = StoreAfterValidation(store, cycles[id].acct, ds, v.now)
    /\ UNCHANGED engine
    /\ UNCHANGED CycleFrame

\* the whole decision list goes to the execution engine in one call
HandOver(id) ==
    /\ cycles[id].phase = "handover"
    /\ engine' = Append(engine, [cycle |-> id, decisions |-> cycles[id].decisions])
    /\ cycles' = [cycles EXCEPT ![id] = [@ EXCEPT !.phase = "executing"]]
    /\ UNCHANGED store
    /\ UNCHANGED CycleFrame

\* the store after the confirmation of the fills, in list order
RECURSIVE Confirmed(_, _, _, _, _, _)
Confirmed(st, a, ds, fills, ts, i) ==
    IF i > Len(ds) THEN st
    ELSE Confirmed(IF i \in fills
                   THEN [st EXCEPT ![a][ds[i].symbol] =
                            ConfirmTrade(@, Direction(ds[i].operation), ts)]
                   ELSE st,
                   a, ds, fills, ts, i + 1)

\* the engine works through the list; each buy or sell that is filled is
\* confirmed and recorded in the store; then the cycle ends
Execute(id, fills) ==
    /\ cycles[id].phase = "executing"
    /\ fills \subseteq Accepted(cycles[id].decisions)
    /\ store' = Confirmed(store, cycles[id].acct, cycles[id].decisions, fills,
                          BaseEnv.now + 45 * id, 1)
    /\ cycles' = [cycles EXCEPT ![id] = [@ EXCEPT !.phase = "ended"]]
    /\ UNCHANGED engine
    /\ UNCHANGED CycleFrame

\* templates of a cycle: well-formed, and with a count of 0
CycleTemplates == {<<Counted("BTC_klines_15m", 3)>>, <<Counted("BTC_klines_15m", 0)>>}

\* answers of the provider
CycleAnswers ==
    {Answer(<<"json">>, <<>>, <<>>, <<Buy("BTC")>>),
     Answer(<<>>, <<>>, <<"prose", "json">>, <<Sell("BTC"), Buy("ETH")>>),
     Answer(<<"prose">>, <<>>, <<>>, <<>>)}

NextSched ==
    \/ \E a \in Accounts, t \in CycleTemplates : Tick(a, t)
    \/ \E id \in 1..Len(cycles) : RenderPrompt(id)
    \/ \E id \in 1..Len(cycles), resp \in CycleAnswers : ProviderAnswers(id, resp)
    \/ \E id \in 1..Len(cycles) : ProviderFails(id)
    \/ \E id \in 1..Len(cycles) : NormalizeAndValidate(id)
    \/ \E id \in 1..Len(cycles) : HandOver(id)
    \/ \E id \in 1..Len(cycles), fills \in SUBSET (1..Len(Monitored)) :
          Execute(id, fills)

Idle == [kind |-> "none"]

\* a store in which acct1 went long on BTC 100 minutes before the first tick
EarlierLong ==
    [a \in Accounts |->
        [s \in MonSet |->
            IF a = "acct1" /\ s = "BTC"
            THEN [last_dir |-> "long", last_ts |-> BaseEnv.now - 100,
                  reversals |-> 0]
            ELSE NoTrade]]

InitSched ==
    /\ pc = "done"
    /\ env = BaseEnv
    /\ llm = Answer(<<>>, <<>>, <<>>, <<>>)
    /\ endpoint = 1
    /\ retry = 0
    /\ attempts = 0
    /\ norm = NoResult
    /\ work = <<>>
    /\ submitted = NotSubmitted
    /\ cycles = <<>>
    /\ store \in {[a \in Accounts |-> [s \in MonSet |-> NoTrade]], EarlierLong}
    /\ engine = <<>>
    /\ arg = Idle
    /\ out = Idle
    /\ NoFrontend

SpecSched == InitSched /\ [][NextSched]_vars

-----------------------------------------------------------------------------
(* C11: TemplateError and ProviderError *)

HandedOver(id) == \E k \in 1..Len(engine) : engine[k].cycle = id

\* C11: a cycle whose rendering failed with a TemplateError, or whose LLM
\* call failed with a ProviderError after its retries, hands no decision
\* list to the execution engine, not even a list of holds.
C11_AbortsWithoutDecisions ==
    \A id \in 1..Len(cycles) :
        cycles[id].error \in {"TemplateError", "ProviderError"} =>
            /\ ~HandedOver(id)
            /\ cycles[id].phase \notin {"executing", "ended"}

-----------------------------------------------------------------------------
(* C12: schema rejections *)

BadOperation == [Sized(Buy("BTC"), 20, 2) EXCEPT !.operation = "short"]

SchemaEntries ==
    {Sized(Buy("BTC"), 20, 2), Sized(Sell("ETH"), 20, 2),
     Sized(Buy("SOL"), 20, 2), Close("SOL"),
     BadOperation, BadEnum, NoLeverage, NoSymbol,
     [Sized(Buy("ETH"), 20, 2) EXCEPT !.max_price = 0]}

InitSchema == InitWith({BaseEnv, [BaseEnv EXCEPT !.pos["SOL"] = "long"]},
                       SchemaEntries)

SpecSchema == InitSchema /\ [][Next]_vars

\* a required field is missing (a limit price counts when the operation
\* needs it) or operation or time_in_force is not one of the schema's values
Malformed(e) ==
    \/ e.missing # {}
    \/ e.operation \notin {"buy", "sell", "hold", "close"}
    \/ e.time_in_force \notin {"Ioc", "Gtc", "Alo"}
    \/ e.operation = "buy" /\ e.max_price <= 0
    \/ e.operation = "sell" /\ e.min_price <= 0
    \/ /\ e.operation = "close" /\ e.symbol \in MonSet
       /\ \/ env.pos[e.symbol] = "long" /\ e.min_price <= 0
          \/ env.pos[e.symbol] = "short" /\ e.max_price <= 0

OutputFor(sym) == Output[CHOOSE i \in 1..Len(Output) : Output[i].symbol = sym]

\* the input list without its malformed entries, validated on its own
WithoutMalformed ==
    ValidateAll(SelectSeq(norm.decisions, LAMBDA e : ~Malformed(e)), env)

ReferenceFor(sym) ==
    WithoutMalformed[CHOOSE i \in 1..Len(WithoutMalformed) :
                        WithoutMalformed[i].symbol = sym]

\* C12 as stated: every malformed input entry is output as hold("schema"),
\* and every other input entry of a monitored symbol is output as it would
\* be if the malformed entries were not in the list.
C12_Original ==
    (Validated /\ norm.kind = "ok") =>
        \A i \in 1..Len(norm.decisions) :
            LET e == norm.decisions[i]
            IN  IF Malformed(e)
                THEN \E j \in 1..Len(Output) :
                        /\ Output[j].symbol = e.symbol
                        /\ Output[j].operation = "hold"
                        /\ Output[j].why = "schema"
                ELSE e.symbol \in MonSet =>
                        OutputFor(e.symbol) = ReferenceFor(e.symbol)

\* C12 amended: the validator returns one result per monitored symbol for
\* every input list; a symbol whose first input entry is malformed is output
\* as hold with the diagnostic "schema", and only such a symbol is; every
\* other symbol is output as it would be if the malformed entries were not
\* in the list.  A malformed entry without a monitored symbol, or behind
\* another entry of its symbol, is not output at all.
C12_SchemaHold ==
    (Validated /\ norm.kind = "ok") =>
        /\ Len(Output) = 3
        /\ \A s \in MonSet :
             IF s \in RawSymbols /\ Malformed(FirstRaw(s))
             THEN /\ OutputFor(s).operation = "hold"
                  /\ OutputFor(s).why = "schema"
                  /\ \E k \in 1..Len(OutputFor(s).diags) :
                        OutputFor(s).diags[k].rule = "schema"
             ELSE /\ OutputFor(s).why # "schema"
                  /\ OutputFor(s) = ReferenceFor(s)

\* an entry with an invalid operation next to a well-formed short: the
\* first is held for "schema", the second goes through
C12_Witness ==
    /\ pc = "done"
    /\ norm.decisions = <<BadOperation, Sized(Sell("ETH"), 20, 2)>>
    /\ Output[1].operation = "hold" /\ Output[1].why = "schema"
    /\ Output[2].operation = "sell" /\ Output[2].why = ""
    /\ Output[3].operation = "hold" /\ Output[3].why = "coverage"

-----------------------------------------------------------------------------
(* C13: validation does not write FlipFlopState *)

\* C13: the store changes only in the step that confirms executions; a
\* validation step leaves it as it is, and validating a cycle's raw
\* decisions again against the same snapshot, with no confirmation in
\* between, returns the same ValidationResult list.
C13_ValidationReadsOnly ==
    [][/\ store' # store =>
            \E id \in 1..Len(cycles) :
                cycles[id].phase = "executing" /\ cycles'[id].phase = "ended"
       /\ \A id \in 1..Len(cycles) :
            cycles'[id].validations # cycles[id].validations =>
                /\ store' = store
                /\ cycles[id].validations = 1 =>
                      cycles'[id].decisions = cycles[id].decisions]_vars

\* acct1, long on BTC 100 minutes earlier: the sell on BTC has been
\* validated twice and is accepted both times
C13_Witness ==
    \E id \in 1..Len(cycles) :
        /\ cycles[id].acct = "acct1"
        /\ cycles[id].validations = 2
        /\ store["acct1"]["BTC"].last_dir = "long"
        /\ cycles[id].decisions[1].symbol = "BTC"
        /\ cycles[id].decisions[1].operation = "sell"

-----------------------------------------------------------------------------
(* C14: one cycle per account *)

\* the cycles of the account that have started and not ended
Running(a) ==
    {id \in 1..Len(cycles) :
        /\ cycles[id].acct = a
        /\ cycles[id].phase \notin {"ended", "aborted", "cancelled"}}

\* C14: at every moment each account has at most one cycle between its
\* start and its end, the suspension in the LLM call included, and every
\* step that writes the FlipFlopState of an account is a step of that one
\* cycle, so no two steps write the state of the same (account, symbol)
\* concurrently.
C14_OneCyclePerAccount ==
    /\ [](\A a \in Accounts : Cardinality(Running(a)) <= 1)
    /\ [][\A a \in Accounts :
            store'[a] # store[a] =>
                \E id \in 1..Len(cycles) :
                    /\ Running(a) = {id}
                    /\ cycles[id].phase = "executing"
                    /\ cycles'[id].phase = "ended"]_vars

\* the cycles of the two accounts are suspended in the LLM call together
C14_Witness ==
    \E i, j \in 1..Len(cycles) :
        /\ cycles[i].acct = "acct1" /\ cycles[i].phase = "suspended"
        /\ cycles[j].acct = "acct2" /\ cycles[j].phase = "suspended"

-----------------------------------------------------------------------------
(* C15: all or nothing *)

\* the decisions of the cycle that the execution engine has received
Received(id) ==
    {d \in UNION {{engine[k].decisions[i] : i \in 1..Len(engine[k].decisions)} :
                    k \in {n \in 1..Len(engine) : engine[n].cycle = id}} : TRUE}

DecisionsOf(id) == {cycles[id].decisions[i] : i \in 1..Len(cycles[id].decisions)}

\* C15: none of the decisions of a cycle that was cancelled by a newer
\* cycle of its account reaches the execution engine, and of any cycle the
\* engine has received either nothing or the whole decision list, one entry
\* per monitored symbol.
C15_AllOrNothing ==
    \A id \in 1..Len(cycles) :
        /\ cycles[id].phase = "cancelled" => Received(id) = {}
        /\ Received(id) # {} =>
              /\ Received(id) = DecisionsOf(id)
              /\ \A s \in MonSet : \E d \in Received(id) : d.symbol = s
              /\ Cardinality({k \in 1..Len(engine) : engine[k].cycle = id}) = 1

\* a validated cycle was cancelled by the next tick of its account, whose
\* cycle has handed its list over: the engine has the second list only
C15_Witness ==
    \E i, j \in 1..Len(cycles) :
        /\ i < j /\ cycles[i].acct = cycles[j].acct
        /\ cycles[i].phase = "cancelled" /\ cycles[i].validations > 0
        /\ \E k \in 1..Len(cycles[i].decisions) :
              cycles[i].decisions[k].operation = "buy"
        /\ Received(i) = {}
        /\ Received(j) # {}

-----------------------------------------------------------------------------
(* C16: fallback priority *)

\* a document of the decision schema, bare or inside code fences
IsDocument(t) ==
    t \in {<<"json">>, <<"fence", "json">>, <<"json", "fence">>,
           <<"fence", "json", "fence">>}

\* the outcome the normalizer owes to the one text it may use
DecidedBy(valid) ==
    IF valid THEN norm.kind = "ok" /\ norm.decisions = llm.payload
    ELSE norm.kind = "ParseError" /\ norm.decisions = <<>>

\* C16: the result is decided by the primary content whenever it is not
\* empty, else by the simple reasoning field whenever that is not empty,
\* else by the extended reasoning field; a non-empty earlier candidate that
\* is not a document gives ParseError even when a later candidate holds a
\* valid document.
C16_StrictPriority ==
    norm.kind # "none" =>
        IF llm.content # <<>> THEN DecidedBy(IsDocument(llm.content))
        ELSE IF llm.reasoning # <<>> THEN DecidedBy(IsDocument(llm.reasoning))
        ELSE IF llm.reasoning_content # <<>>
             THEN DecidedBy(\E i \in 1..Len(llm.reasoning_content) :
                     /\ llm.reasoning_content[i] = "json"
                     /\ \A j \in (i + 1)..Len(llm.reasoning_content) :
                           llm.reasoning_content[j] = "prose")
        ELSE norm.kind = "EmptyResponseError"

\* empty content, a reasoning field that is not a document, and a valid
\* document in the extended reasoning field: ParseError
C16_Witness ==
    /\ llm.content = <<>>
    /\ llm.reasoning = <<"block">>
    /\ llm.reasoning_content = <<"json">>
    /\ norm.kind = "ParseError"
    /\ pc = "done"

-----------------------------------------------------------------------------
(* The brace scanner of the extended-reasoning extractor, character by     *)
(* character: one depth counter and the quoted-string state.               *)

Quote == "\""

Backslash == "\\"

NoBlock == [from |-> 0, to |-> 0]

ScanStart ==
    [kind |-> "scan", pos |-> 1, depth |-> 0, inString |-> FALSE,
     escaped |-> FALSE, start |-> 0, block |-> NoBlock]

\* the scan state after the character ch at position i
ScanStep(st, ch, i) ==
    IF st.inString
    THEN IF st.escaped THEN [st EXCEPT !.escaped = FALSE]
         ELSE IF ch = Backslash THEN [st EXCEPT !.escaped = TRUE]
         ELSE IF ch = Quote THEN [st EXCEPT !.inString = FALSE]
         ELSE st
    ELSE IF ch = Quote THEN [st EXCEPT !.inString = TRUE]
    ELSE IF ch = "{"
         THEN [st EXCEPT !.depth = @ + 1,
                         !.start = IF st.depth = 0 THEN i ELSE @]
    ELSE IF ch = "}" /\ st.depth > 0
         THEN [st EXCEPT !.depth = @ - 1,
                         !.block = IF st.depth = 1
                                   THEN [from |-> st.start, to |-> i] ELSE @]
    ELSE st

\* the scanner reads the next character of the text
ScanChar ==
    /\ arg.kind = "text"
    /\ out.pos <= Len(arg.text)
    /\ out' = [ScanStep(out, arg.text[out.pos], out.pos) EXCEPT !.pos = @ + 1]
    /\ UNCHANGED <<pc, env, llm, endpoint, retry, attempts, norm, work,
                   submitted, cycles, store, engine, arg, frontend>>

\* the last block closed at depth 0, or nothing
Extracted ==
    IF out.block = NoBlock THEN <<>>
    ELSE SubSeq(arg.text, out.block.from, out.block.to)

\* JSON objects: plain, nested, with a closing brace inside a string, and
\* with an escaped quote and an opening brace inside a string
Objects ==
    {<<"{", "a", "}">>,
     <<"{", "a", "{", "a", "}", "}">>,
     <<"{", Quote, "}", Quote, "}">>,
     <<"{", Quote, Backslash, Quote, "{", Quote, "}">>}

\* reasoning prose, with stray braces and quoted braces
Prose ==
    SeqsUpTo({"a", "{", "}"}, MaxLen)
        \cup {<<Quote, "{", Quote>>, <<"{", "a", "}", "a">>}

InitScan ==
    /\ pc = "done"
    /\ env = BaseEnv
    /\ llm = Answer(<<>>, <<>>, <<>>, <<>>)
    /\ endpoint = 1
    /\ retry = 0
    /\ attempts = 0
    /\ norm = NoResult
    /\ work = <<>>
    /\ submitted = NotSubmitted
    /\ cycles = <<>>
    /\ store = [a \in Accounts |-> [s \in MonSet |-> NoTrade]]
    /\ engine = <<>>
    /\ \E p \in Prose, o \in Objects :
          arg = [kind |-> "text", prose |-> p, object |-> o, text |-> p \o o]
    /\ out = ScanStart
    /\ NoFrontend

SpecScan == InitScan /\ [][ScanChar]_vars

-----------------------------------------------------------------------------
(* C17: the last outermost balanced brace block *)

-----------------------------------------------------------------------------
(* C18: the regime table *)

\* the classifier is run on the changes of the anchors
ClassifyRegime ==
    /\ arg.kind = "changes"
    /\ out = Idle
    /\ out' = Classify(arg.chg, arg.maxlev)
    /\ UNCHANGED <<pc, env, llm, endpoint, retry, attempts, norm, work,
                   submitted, cycles, store, engine, arg, frontend>>

InitRegime ==
    /\ pc = "done"
    /\ env = BaseEnv
    /\ llm = Answer(<<>>, <<>>, <<>>, <<>>)
    /\ endpoint = 1
    /\ retry = 0
    /\ attempts = 0
    /\ norm = NoResult
    /\ work = <<>>
    /\ submitted = NotSubmitted
    /\ cycles = <<>>
    /\ store = [a \in Accounts |-> [s \in MonSet |-> NoTrade]]
    /\ engine = <<>>
    /\ \E c \in [MonSet -> (0 - 8)..4], m \in {2, 10} :
          arg = [kind |-> "changes", chg |-> c, maxlev |-> m]
    /\ out = Idle
    /\ NoFrontend

SpecRegime == InitRegime /\ [][ClassifyRegime]_vars

\* three times the average 24h change of BTC, ETH and SOL
TripleAverage == arg.chg["BTC"] + arg.chg["ETH"] + arg.chg["SOL"]

Row(label, leverage, allocation, stop) ==
    /\ out.label = label
    /\ out.leverage_cap = leverage
    /\ out.allocation_cap_fraction = allocation
    /\ out.stop_loss_atr_multiplier = stop

\* C18: the classification is the row of the table the average falls in:
\* above +3 BULLISH (account max, 50%, 1.5), from -3 to +3 inclusive NEUTRAL
\* (5, 30%, 1.5), from -7 inclusive to -3 exclusive BEARISH (3, 20%, 1.0),
\* below -7 CRASH (2, 10%, 0.75).
C18_RegimeTable ==
    out.kind = "regime" =>
        /\ TripleAverage > 9 => Row("BULLISH", arg.maxlev, 50, 150)
        /\ (0 - 9 <= TripleAverage /\ TripleAverage <= 9)
              => Row("NEUTRAL", 5, 30, 150)
        /\ (0 - 21 <= TripleAverage /\ TripleAverage < 0 - 9)
              => Row("BEARISH", 3, 20, 100)
        /\ TripleAverage < 0 - 21 => Row("CRASH", 2, 10, 75)

\* an average of exactly -7.0 has been classified BEARISH
C18_Witness ==
    /\ out.kind = "regime"
    /\ arg.chg = [s \in MonSet |-> 0 - 7]
    /\ out.label = "BEARISH" /\ out.leverage_cap = 3

-----------------------------------------------------------------------------
(* C19: order of the demotions *)

\* usages of 50, 20, 35, 15 and 20 percent of an equity of 100000
DemotionEntries ==
    {Sized(Buy("BTC"), 10, 5), Sized(Sell("ETH"), 10, 2),
     Sized(Sell("ETH"), 35, 1), Sized(Buy("SOL"), 15, 1),
     Sized(Buy("SOL"), 10, 2)}

DemotionEnvs == {[Regime(4) EXCEPT !.avail = a] : a \in {100000, 80000}}

\* lists long enough for an entry on every monitored symbol
InitDemotion == InitFrom(DemotionEnvs, SeqsUpTo(DemotionEntries, MaxLen + 1))

SpecDemotion == InitDemotion /\ [][Next]_vars

Open(r) == r.operation \in {"buy", "sell"}

\* projected usage of the accepted entries of priority i or higher, in
\* percent of a cent
UsageUpTo(w, i) ==
    SumOver([j \in 1..Len(w) |->
                w[j].target_portion_of_balance * env.avail * w[j].leverage],
            {j \in 1..i : Open(w[j])})

\* the aggregate-margin step demotes entry i
Demoted(i) == Open(work[i]) /\ ~Open(work'[i])

\* the step demotes from the lowest priority upwards, leaves every other
\* entry as it is, and demotes entry i exactly when the usage of the accepted
\* entries down to i is above 70% of equity (atSeventy: or exactly 70%)
DemotionStep(atSeventy) ==
    pc = "margin" =>
        \A i \in 1..Len(work) :
            /\ Demoted(i) =>
                  /\ work'[i].operation = "hold"
                  /\ work'[i].why = "aggregate-margin"
                  /\ \A j \in (i + 1)..Len(work) : Open(work[j]) => Demoted(j)
            /\ ~Demoted(i) => work'[i] = work[i]
            /\ Open(work[i]) =>
                  (Demoted(i) <=>
                      \/ UsageUpTo(work, i) > 70 * env.equity
                      \/ atSeventy /\ UsageUpTo(work, i) = 70 * env.equity)

-----------------------------------------------------------------------------
(* C20: candle counts *)

\* the renderer is run on the template
RenderTemplate ==
    /\ arg.kind = "template"
    /\ out = Idle
    /\ out' = Render(arg.template, arg.strict)
    /\ UNCHANGED <<pc, env, llm, endpoint, retry, attempts, norm, work,
                   submitted, cycles, store, engine, arg, frontend>>

\* placeholders with no count, counts at and around both ends of the valid
\* range, a count that is not an integer, and an unknown identifier
Placeholders ==
    {Plain("BTC_klines_15m"), Plain("ETH_klines_1h"), Plain("FOO_klines_1h"),
     Miscounted("BTC_klines_15m")}
    \cup {Counted("BTC_klines_15m", n) : n \in {0 - 1, 0, 1, 3, 1500, 1501}}
    \cup {Counted("ETH_klines_1h", 200)}

InitRender ==
    /\ pc = "done"
    /\ env = BaseEnv
    /\ llm = Answer(<<>>, <<>>, <<>>, <<>>)
    /\ endpoint = 1
    /\ retry = 0
    /\ attempts = 0
    /\ norm = NoResult
    /\ work = <<>>
    /\ submitted = NotSubmitted
    /\ cycles = <<>>
    /\ store = [a \in Accounts |-> [s \in MonSet |-> NoTrade]]
    /\ engine = <<>>
    /\ \E t \in SeqsUpTo(Placeholders, MaxLen), strict \in BOOLEAN :
          arg = [kind |-> "template", template |-> t, strict |-> strict]
    /\ out = Idle
    /\ NoFrontend

SpecRender == InitRender /\ [][RenderTemplate]_vars

\* the count of the placeholder is 0, negative, not an integer or above 1500
BadCount(ph) ==
    ph.given /\ ~(ph.integer /\ 1 <= ph.value /\ ph.value <= 1500)

\* candle records of the identifier in the rendered text
RecordsOf(id) == Cardinality({k \in 1..Len(out.text) : out.text[k].id = id})

\* records the placeholders of the identifier ask for
Asked(id) ==
    SumOver([i \in 1..Len(arg.template) |->
                IF arg.template[i].given THEN arg.template[i].value ELSE 500],
            {i \in 1..Len(arg.template) : arg.template[i].id = id})

\* C20: a template with a placeholder whose count is 0, negative, not an
\* integer or above 1500 is not rendered: the result is a ValidationError
\* (unless an unresolved identifier fails first) and carries no text; a
\* rendered template holds, for every identifier, exactly the number of
\* candle records its placeholders ask for, the count written after the
\* placeholder or 500 when none is written.
C20_CandleCount ==
    out.kind # "none" =>
        /\ (\E i \in 1..Len(arg.template) : BadCount(arg.template[i])) =>
              /\ out.kind \in {"ValidationError", "MissingVariableError"}
              /\ out.text = <<>>
              /\ (\A i \in 1..Len(arg.template) :
                     arg.template[i].id \in {"BTC_klines_15m", "ETH_klines_1h"})
                 => out.kind = "ValidationError"
        /\ out.kind = "ok" =>
              /\ \A i \in 1..Len(arg.template) : ~BadCount(arg.template[i])
              /\ \A id \in {"BTC_klines_15m", "ETH_klines_1h"} :
                    RecordsOf(id) = Asked(id)

\* {BTC_klines_15m}(3) rendered exactly 3 candle records
C20_Witness ==
    /\ arg.kind = "template"
    /\ arg.template = <<Counted("BTC_klines_15m", 3)>>
    /\ out.kind = "ok"
    /\ Len(out.text) = 3
    /\ \A k \in 1..3 : out.text[k] = [id |-> "BTC_klines_15m", candle |-> k]

-----------------------------------------------------------------------------
(* C21: diagnostics *)

\* one entry clamped in price, leverage and portion at once, entries that
\* each check rejects, and entries the validator leaves as they are
DiagnosticEntries ==
    {Sized(WithLimits(Buy("BTC"), 9900000), 120, 60),
     Buy("BTC"),
     WithLeverage(Buy("ETH"), 60),
     WithLimits(Sell("ETH"), 340000),
     BadEnum,
     NoTakeProfit(Buy("SOL")),
     Sized(Sell("SOL"), 30, 5),
     HoldEntry("SOL")}

DiagnosticEnvs ==
    {BaseEnv, Traded("short", 30, 0),
     [BaseEnv EXCEPT !.chg = [s \in MonSet |-> 0 - 8]]}

InitDiagnostics == InitWith(DiagnosticEnvs, DiagnosticEntries)

SpecDiagnostics == InitDiagnostics /\ [][Next]_vars

DecisionFields ==
    {"operation", "target_portion_of_balance", "leverage", "max_price",
     "min_price", "time_in_force", "take_profit_price", "stop_loss_price"}

\* the rules that can change a field
RulesFor(field) ==
    CASE field = "operation" ->
            {"schema", "aggregate-margin", "flip-flop-cooldown",
             "missing-risk-controls", "correlation-guard"}
      [] field \in {"max_price", "min_price"} -> {"price-band"}
      [] field = "leverage" -> {"leverage"}
      [] field = "target_portion_of_balance" -> {"allocation"}
      [] OTHER -> {}

\* output entry r has a diagnostic for the change of field from the raw value
Recorded(r, field, raw) ==
    \E k \in 1..Len(r.diags) :
        /\ r.diags[k].field = field
        /\ r.diags[k].rule \in RulesFor(field)
        /\ r.diags[k].original_value = raw[field]
        /\ r.diags[k].final_value = r[field]

\* every field of r that differs from the raw decision has its diagnostic,
\* and r without diagnostics is the raw decision
Audited(r, raw) ==
    /\ \A f \in DecisionFields : r[f] # raw[f] => Recorded(r, f, raw)
    /\ r.diags = <<>> => \A f \in DecisionFields : r[f] = raw[f]

\* C21 as stated: every output entry has a raw input decision for its
\* symbol; each field whose final value differs from the raw value has a
\* diagnostic {rule, original_value, final_value} naming the rule that
\* changed it, and an entry with no diagnostics equals the raw decision.
C21_Original ==
    (Validated /\ norm.kind = "ok") =>
        \A i \in 1..Len(Output) :
            /\ Output[i].symbol \in RawSymbols
            /\ Audited(Output[i], FirstRaw(Output[i].symbol))

\* C21 amended: for every output entry whose symbol has a decision in the
\* raw input, each field whose final value differs from the value in the
\* first raw decision for that symbol has a diagnostic {rule,
\* original_value, final_value} with the raw value, the final value and the
\* rule that changed it, and an entry with no diagnostics equals that raw
\* decision; the entry of a symbol the input does not cover is the
\* synthesized hold(0), which has no raw decision and no diagnostics.
C21_EveryChangeRecorded ==
    (Validated /\ norm.kind = "ok") =>
        \A i \in 1..Len(Output) :
            IF Output[i].symbol \in RawSymbols
            THEN Audited(Output[i], FirstRaw(Output[i].symbol))
            ELSE Output[i] = SynthHold(Output[i].symbol, "coverage")

\* a buy clamped in price, leverage and portion, then demoted; ETH is not in
\* the input; the long on SOL without take-profit is rejected
C21_Witness ==
    /\ pc = "done"
    /\ env = BaseEnv
    /\ norm.decisions = <<Sized(WithLimits(Buy("BTC"), 9900000), 120, 60),
                          NoTakeProfit(Buy("SOL"))>>
    /\ Len(Output[1].diags) = 4
    /\ Output[1].max_price = 9797000
    /\ Output[1].leverage = 5
    /\ Output[1].target_portion_of_balance = 30
    /\ Output[1].operation = "hold"
    /\ Output[2].diags = <<>>
    /\ Output[3].operation = "hold"

-----------------------------------------------------------------------------
(* User interface.  A text whose length or prefix the code tests is a      *)
(* sequence of characters; a request that has been sent and not answered   *)
(* is an entry of pending, and any entry may be answered next.             *)

\* the advisor's variables, which no component of the interface touches
advisor ==
    <<pc, env, llm, endpoint, retry, attempts, norm, work, submitted,
      cycles, store, engine, arg, out>>

\* no decision cycle is running
AdvisorIdle ==
    /\ pc = "done"
    /\ env = BaseEnv
    /\ llm = Answer(<<>>, <<>>, <<>>, <<>>)
    /\ endpoint = 1
    /\ retry = 0
    /\ attempts = 0
    /\ norm = NoResult
    /\ work = <<>>
    /\ submitted = NotSubmitted
    /\ cycles = <<>>
    /\ store = [a \in Accounts |-> [s \in MonSet |-> NoTrade]]
    /\ engine = <<>>
    /\ arg = Idle
    /\ out = Idle

Null == [null |-> TRUE]

Repeat(c, n) == [i \in 1..n |-> c]

\* "0x" followed by hexadecimal digits, n characters in all
Hex(n) == <<"0", "x">> \o Repeat("a", n - 2)

StartsWith0x(s) == Len(s) >= 2 /\ s[1] = "0" /\ s[2] = "x"

Trim(s) ==
    LET idx == {i \in 1..Len(s) : s[i] # " "}
    IN  IF idx = {} THEN <<>>
        ELSE SubSeq(s, CHOOSE i \in idx : \A j \in idx : i <= j,
                       CHOOSE i \in idx : \A j \in idx : j <= i)

\* the requests still awaited once the i-th has been answered
Without(reqs, i) ==
    [k \in 1..(Len(reqs) - 1) |-> IF k < i THEN reqs[k] ELSE reqs[k + 1]]

-----------------------------------------------------------------------------
(* WalletConfigPanel and its two WalletCards *)

Environments == {"testnet", "mainnet"}

WalletData(address, maxLev, defLev) ==
    [walletAddress |-> address, maxLeverage |-> maxLev,
     defaultLeverage |-> defLev]

WalletOf(p, e) == IF e = "testnet" THEN p.testnetWallet ELSE p.mainnetWallet

\* the form state a WalletCard is mounted with
NewCard ==
    [isEditing |-> FALSE, addressInput |-> <<>>, apiPrivateKey |-> <<>>,
     maxLeverage |-> 3, defaultLeverage |-> 1]

\* the effect that syncs the form with the wallet
SyncCard(c, wallet) ==
    IF wallet # Null
    THEN [c EXCEPT !.addressInput = wallet.walletAddress,
                   !.maxLeverage = wallet.maxLeverage,
                   !.defaultLeverage = wallet.defaultLeverage]
    ELSE [c EXCEPT !.addressInput = <<>>, !.apiPrivateKey = <<>>,
                   !.maxLeverage = 3, !.defaultLeverage = 1]

\* the panel renders its cards unless it shows the loading screen
CardsMounted(p) ==
    ~(p.loading /\ p.testnetWallet = Null /\ p.mainnetWallet = Null)

\* the cards after the render that follows a handler: cs and p are the
\* states the handler has set, loaded tells that the wallets were fetched
AfterRender(cs, p, loaded) ==
    IF ~CardsMounted(p) THEN [e \in Environments |-> NewCard]
    ELSE IF ~CardsMounted(panel)
    THEN [e \in Environments |-> SyncCard(NewCard, WalletOf(p, e))]
    ELSE [e \in Environments |->
            IF \/ cs[e].isEditing # cards[e].isEditing
               \/ loaded /\ ~(WalletOf(panel, e) = Null /\ WalletOf(p, e) = Null)
            THEN SyncCard(cs[e], WalletOf(p, e))
            ELSE cs[e]]

FormData(c) ==
    [walletAddress |-> c.addressInput, apiPrivateKey |-> c.apiPrivateKey,
     maxLeverage |-> c.maxLeverage, defaultLeverage |-> c.defaultLeverage]

\* handleSaveInternal once onSave has returned
AfterSave_mut(c) == [c EXCEPT !.isEditing = FALSE]

AfterSave(c) == [c EXCEPT !.isEditing = FALSE, !.apiPrivateKey = <<>>]

AddressValid(a) == ~(Trim(a) = <<>> \/ ~StartsWith0x(a) \/ Len(a) # 42)

KeyValid(k) == ~(~StartsWith0x(k) \/ Len(k) # 66)

ValidForSave_mut(p, e, data) ==
    /\ AddressValid(data.walletAddress)
    /\ ~(WalletOf(p, e) = Null /\ data.apiPrivateKey = <<>>)
    /\ data.apiPrivateKey # <<>> => StartsWith0x(data.apiPrivateKey)
    /\ ~(data.maxLeverage < 1 \/ data.maxLeverage > 50)

\* the four checks of handleSaveWallet
ValidForSave(p, e, data) ==
    /\ AddressValid(data.walletAddress)
    /\ ~(WalletOf(p, e) = Null /\ data.apiPrivateKey = <<>>)
    /\ data.apiPrivateKey # <<>> => KeyValid(data.apiPrivateKey)
    /\ ~(data.maxLeverage < 1 \/ data.maxLeverage > 50)

Request(api, e, caller, data) ==
    [api |-> api, environment |-> e, caller |-> caller, data |-> data]

\* loadWalletInfo up to its await
LoadWalletInfo(caller, e) == Request("getAccountWallet", e, caller, Null)

WalletFrame == <<advisor, manager, chat, modal>>

FormShown(e) ==
    CardsMounted(panel) /\ ~(WalletOf(panel, e) # Null /\ ~cards[e].isEditing)

ViewShown(e) ==
    CardsMounted(panel) /\ WalletOf(panel, e) # Null /\ ~cards[e].isEditing

\* the user types into one of the four inputs of the form
TypeInto(e, field, value) ==
    /\ FormShown(e)
    /\ cards' = [cards EXCEPT ![e][field] = value]
    /\ UNCHANGED <<panel, pending, server>>
    /\ UNCHANGED WalletFrame

ClickEdit(e) ==
    /\ ViewShown(e)
    /\ cards' = AfterRender([cards EXCEPT ![e].isEditing = TRUE], panel, FALSE)
    /\ UNCHANGED <<panel, pending, server>>
    /\ UNCHANGED WalletFrame

ClickCancel(e) ==
    /\ FormShown(e)
    /\ LET w == WalletOf(panel, e)
           c == [cards[e] EXCEPT
                    !.isEditing = FALSE,
                    !.apiPrivateKey = <<>>,
                    !.addressInput = IF w # Null THEN w.walletAddress ELSE @]
       IN  cards' = AfterRender([cards EXCEPT ![e] = c], panel, FALSE)
    /\ UNCHANGED <<panel, pending, server>>
    /\ UNCHANGED WalletFrame

\* Save Securely: handleSaveInternal and handleSaveWallet up to the await
ClickSave(e) ==
    /\ FormShown(e)
    /\ ~panel.loading
    /\ LET data == FormData(cards[e])
       IN  IF ValidForSave(panel, e, data)
           THEN /\ panel' = [panel EXCEPT !.loading = TRUE]
                /\ pending' = Append(pending,
                                Request("configureAccountWallet", e, "save", data))
                /\ server' = [server EXCEPT !.requests = @ + 1]
                /\ cards' = AfterRender(cards, panel', FALSE)
           ELSE /\ cards' = AfterRender([cards EXCEPT ![e] = AfterSave(@)],
                                        panel, FALSE)
                /\ UNCHANGED <<panel, pending, server>>
    /\ UNCHANGED WalletFrame

\* configureAccountWallet returns or throws: the rest of handleSaveWallet
ConfigureResponds(i, outcome) ==
    /\ i \in 1..Len(pending)
    /\ pending[i].api = "configureAccountWallet"
    /\ LET r == pending[i]
       IN  IF outcome = "success"
           THEN /\ server' = [server EXCEPT
                                ![r.environment] =
                                    WalletData(r.data.walletAddress,
                                               r.data.maxLeverage,
                                               r.data.defaultLeverage)]
                /\ panel' = [panel EXCEPT !.loading = TRUE]
                /\ pending' = Append(Without(pending, i),
                                     LoadWalletInfo("save", r.environment))
                /\ cards' = AfterRender(cards, panel', FALSE)
           ELSE /\ panel' = [panel EXCEPT !.loading = FALSE]
                /\ pending' = Without(pending, i)
                /\ cards' = AfterRender(
                              [cards EXCEPT ![r.environment] = AfterSave(@)],
                              panel', FALSE)
                /\ UNCHANGED server
    /\ UNCHANGED WalletFrame

\* getAccountWallet returns or throws: the rest of loadWalletInfo and of
\* the handler that awaits it
LoadResponds(i, ok) ==
    /\ i \in 1..Len(pending)
    /\ pending[i].api = "getAccountWallet"
    /\ LET r == pending[i]
           p == IF ok
                THEN [panel EXCEPT !.testnetWallet = server.testnet,
                                   !.mainnetWallet = server.mainnet,
                                   !.loading = FALSE]
                ELSE [panel EXCEPT !.loading = FALSE]
           c == IF r.caller = "save"
                THEN [cards EXCEPT ![r.environment] = AfterSave(@)]
                ELSE cards
       IN  /\ panel' = p
           /\ cards' = AfterRender(c, p, ok)
           /\ pending' = Without(pending, i)
    /\ UNCHANGED server
    /\ UNCHANGED WalletFrame

\* the delete button: handleDeleteWallet up to the await
ClickDelete(e, confirmed) ==
    /\ ViewShown(e)
    /\ ~panel.loading
    /\ IF confirmed
       THEN /\ panel' = [panel EXCEPT !.loading = TRUE]
            /\ pending' = Append(pending,
                            Request("deleteAccountWallet", e, "delete", Null))
            /\ server' = [server EXCEPT !.requests = @ + 1]
       ELSE UNCHANGED <<panel, pending, server>>
    /\ UNCHANGED cards
    /\ UNCHANGED WalletFrame

\* deleteAccountWallet returns or throws: the rest of handleDeleteWallet
DeleteResponds(i, ok) ==
    /\ i \in 1..Len(pending)
    /\ pending[i].api = "deleteAccountWallet"
    /\ LET r == pending[i]
       IN  IF ok
           THEN /\ server' = [server EXCEPT ![r.environment] = Null]
                /\ pending' = Append(Without(pending, i),
                                     LoadWalletInfo("delete", r.environment))
           ELSE /\ pending' = Without(pending, i)
                /\ UNCHANGED server
    /\ panel' = [panel EXCEPT !.loading = FALSE]
    /\ cards' = AfterRender(cards, panel', FALSE)
    /\ UNCHANGED WalletFrame

\* Test Connection: handleTestConnection up to the await
ClickTest(e) ==
    /\ ViewShown(e)
    /\ ~panel.testing[e]
    /\ panel' = [panel EXCEPT !.testing[e] = TRUE]
    /\ pending' = Append(pending,
                    Request("testWalletConnection", e, "test", Null))
    /\ server' = [server EXCEPT !.requests = @ + 1]
    /\ UNCHANGED cards
    /\ UNCHANGED WalletFrame

\* testWalletConnection returns or throws: the rest of handleTestConnection
TestResponds(i, ok) ==
    /\ i \in 1..Len(pending)
    /\ pending[i].api = "testWalletConnection"
    /\ LET r == pending[i]
       IN  IF ok
           THEN /\ panel' = [panel EXCEPT !.loading = TRUE,
                                          !.testing[r.environment] = FALSE]
                /\ pending' = Append(Without(pending, i),
                                     LoadWalletInfo("test", r.environment))
           ELSE /\ panel' = [panel EXCEPT !.testing[r.environment] = FALSE]
                /\ pending' = Without(pending, i)
    /\ cards' = AfterRender(cards, panel', FALSE)
    /\ UNCHANGED server
    /\ UNCHANGED WalletFrame

\* the panel is mounted: its effect has called loadWalletInfo
InitWallet(wallets) ==
    /\ AdvisorIdle
    /\ panel = [testnetWallet |-> Null, mainnetWallet |-> Null,
                loading |-> TRUE,
                testing |-> [e \in Environments |-> FALSE]]
    /\ cards = [e \in Environments |-> NewCard]
    /\ manager = Unmounted
    /\ chat = Unmounted
    /\ modal = Unmounted
    /\ pending = <<LoadWalletInfo("mount", "none")>>
    /\ \E t \in wallets, m \in wallets :
          server = [testnet |-> t, mainnet |-> m, requests |-> 0]

Stored == WalletData(Hex(42), 3, 1)

MaxSaves == 1

\* what the user types into the four inputs of a card
Typed ==
    [addressInput |-> {<<>>, Hex(42), Repeat("a", 42), Hex(41)},
     apiPrivateKey |-> {<<>>, Hex(66), Repeat("a", 66), Hex(65)},
     maxLeverage |-> {0, 1, 50, 51},
     defaultLeverage |-> {0, 1, 60}]

\* one card, every input
NextWalletCard ==
    \/ \E f \in DOMAIN Typed : \E v \in Typed[f] : TypeInto("testnet", f, v)
    \/ ClickEdit("testnet")
    \/ ClickCancel("testnet")
    \/ server.requests < MaxSaves /\ ClickSave("testnet")
    \/ \E i \in 1..Len(pending) :
          \E outcome \in {"success", "rejected", "error"} :
              ConfigureResponds(i, outcome)
    \/ \E i \in 1..Len(pending) : \E ok \in BOOLEAN : LoadResponds(i, ok)

SpecWalletCard == InitWallet({Null, Stored}) /\ [][NextWalletCard]_vars

MaxRequests == 2

\* both cards, well-formed input only
NextWalletPanel ==
    \/ \E e \in Environments :
          \/ TypeInto(e, "addressInput", Hex(42))
          \/ TypeInto(e, "apiPrivateKey", Hex(66))
    \/ \E e \in Environments : ClickEdit(e)
    \/ \E e \in Environments : ClickCancel(e)
    \/ \E e \in Environments : server.requests < MaxRequests /\ ClickSave(e)
    \/ \E e \in Environments : \E confirmed \in BOOLEAN :
          server.requests < MaxRequests /\ ClickDelete(e, confirmed)
    \/ \E e \in Environments : server.requests < MaxRequests /\ ClickTest(e)
    \/ \E i \in 1..Len(pending) :
          \E outcome \in {"success", "rejected", "error"} :
              ConfigureResponds(i, outcome)
    \/ \E i \in 1..Len(pending) : \E ok \in BOOLEAN : DeleteResponds(i, ok)
    \/ \E i \in 1..Len(pending) : \E ok \in BOOLEAN : TestResponds(i, ok)
    \/ \E i \in 1..Len(pending) : \E ok \in BOOLEAN : LoadResponds(i, ok)

SpecWalletPanel == InitWallet({Null, Stored}) /\ [][NextWalletPanel]_vars

-----------------------------------------------------------------------------
(* C22: what handleSaveWallet sends *)

\* a configureAccountWallet request for the environment is sent in this step
Sent(e) ==
    /\ Len(pending') = Len(pending) + 1
    /\ pending'[Len(pending')].api = "configureAccountWallet"
    /\ pending'[Len(pending')].environment = e

\* the conditions of the claim, on the form of the environment's card
Sendable(e) ==
    LET form == cards[e]
    IN  /\ Len(form.addressInput) = 42
        /\ form.addressInput[1] = "0" /\ form.addressInput[2] = "x"
        /\ form.apiPrivateKey # <<>> =>
              /\ Len(form.apiPrivateKey) = 66
              /\ form.apiPrivateKey[1] = "0" /\ form.apiPrivateKey[2] = "x"
        /\ WalletOf(panel, e) = Null => form.apiPrivateKey # <<>>
        /\ 1 <= form.maxLeverage /\ form.maxLeverage <= 50

\* C22: configureAccountWallet is called only when the main wallet address
\* starts with 0x and has length 42, the API private key, when not empty,
\* starts with 0x and has length 66, the key is not empty when no wallet is
\* configured for the environment, and 1 <= maxLeverage <= 50, and the
\* request carries the form; a Save that fails one of these sends no
\* request and leaves testnetWallet and mainnetWallet as they are.
C22_SaveValidated ==
    [][\A e \in Environments :
         /\ Sent(e) =>
               /\ Sendable(e)
               /\ pending'[Len(pending')].data = FormData(cards[e])
         /\ (ClickSave(e) /\ ~Sendable(e)) =>
               /\ pending' = pending
               /\ server' = server
               /\ panel'.testnetWallet = panel.testnetWallet
               /\ panel'.mainnetWallet = panel.mainnetWallet]_vars

\* a request with a well-formed address and key and leverage 50 is awaited
C22_Witness ==
    /\ panel # Unmounted
    /\ Len(pending) = 1
    /\ pending[1].api = "configureAccountWallet"
    /\ pending[1].environment = "testnet"
    /\ pending[1].data.walletAddress = Hex(42)
    /\ pending[1].data.apiPrivateKey = Hex(66)
    /\ pending[1].data.maxLeverage = 50
    /\ server.testnet = Null

-----------------------------------------------------------------------------
(* PromptManager: template selection, drafts and deletion.  A selectedId   *)
(* of 0 stands for null.                                                   *)

MaxDeletes == 2

Template(id, isSystem, name, text) ==
    [id |-> id, isSystem |-> isSystem, name |-> name,
     templateText |-> text, description |-> "prompt"]

\* the template with the id, or Null
Find(templates, id) ==
    IF \E i \in 1..Len(templates) : templates[i].id = id
    THEN templates[CHOOSE i \in 1..Len(templates) : templates[i].id = id]
    ELSE Null

\* templates.filter((tpl) => tpl.id !== id)
FilterOut(templates, id) == SelectSeq(templates, LAMBDA tpl : tpl.id # id)

SelectedTemplate(m) == Find(m.templates, m.selectedId)

\* the selection and the three drafts follow the template
Showing(m, tpl) ==
    IF tpl = Null
    THEN [m EXCEPT !.selectedId = 0, !.templateDraft = "",
                   !.nameDraft = "", !.descriptionDraft = ""]
    ELSE [m EXCEPT !.selectedId = tpl.id, !.templateDraft = tpl.templateText,
                   !.nameDraft = tpl.name, !.descriptionDraft = tpl.description]

ManagerFrame == <<advisor, panel, cards, chat, modal>>

\* getPromptTemplates returns or throws: the rest of loadTemplates, which
\* was called with the selectedId of the mount
TemplatesRespond(i, ok) ==
    /\ i \in 1..Len(pending)
    /\ pending[i].api = "getPromptTemplates"
    /\ LET r == pending[i]
           m == [manager EXCEPT !.loading = FALSE]
           loaded == [m EXCEPT !.templates = server.templates]
       IN  manager' =
             IF ~ok THEN m
             ELSE IF r.selectedId = 0 /\ Len(server.templates) > 0
             THEN Showing(loaded, server.templates[1])
             ELSE IF r.selectedId # 0
                     /\ Find(server.templates, r.selectedId) # Null
             THEN [Showing(loaded, Find(server.templates, r.selectedId))
                      EXCEPT !.selectedId = manager.selectedId]
             ELSE loaded
    /\ pending' = Without(pending, i)
    /\ UNCHANGED server
    /\ UNCHANGED ManagerFrame

handleSelectTemplate(id) ==
    /\ ~manager.loading
    /\ Find(manager.templates, id) # Null
    /\ manager' = Showing(manager, Find(manager.templates, id))
    /\ UNCHANGED <<pending, server>>
    /\ UNCHANGED ManagerFrame

\* the user edits the name, the description or the text of the template
EditDraft(field, value) ==
    /\ SelectedTemplate(manager) # Null
    /\ manager' = [manager EXCEPT ![field] = value]
    /\ UNCHANGED <<pending, server>>
    /\ UNCHANGED ManagerFrame

\* the Delete button is rendered
DeleteShown(m) ==
    SelectedTemplate(m) # Null /\ SelectedTemplate(m).isSystem # "true"

GoesAhead_mut(tpl, confirmed) == tpl # Null /\ tpl.isSystem # "true"

\* handleDeleteTemplate passes its three early returns
GoesAhead(tpl, confirmed) ==
    ~(tpl = Null) /\ ~(tpl.isSystem = "true") /\ confirmed

\* handleDeleteTemplate up to the await; confirmed is the user's answer to
\* the confirmation
handleDeleteTemplate(confirmed) ==
    /\ IF GoesAhead(SelectedTemplate(manager), confirmed)
       THEN /\ pending' = Append(pending,
                            [api |-> "deletePromptTemplate",
                             id |-> SelectedTemplate(manager).id,
                             templates |-> manager.templates])
            /\ server' = [server EXCEPT !.requests = @ + 1]
       ELSE UNCHANGED <<pending, server>>
    /\ UNCHANGED manager
    /\ UNCHANGED ManagerFrame

ClickDeleteTemplate(confirmed) ==
    DeleteShown(manager) /\ handleDeleteTemplate(confirmed)

\* deletePromptTemplate returns or throws: the rest of handleDeleteTemplate,
\* which selects the first template remaining in the list it was called with
DeleteTemplateResponds(i, ok) ==
    /\ i \in 1..Len(pending)
    /\ pending[i].api = "deletePromptTemplate"
    /\ LET r == pending[i]
           remaining == FilterOut(r.templates, r.id)
           m == [manager EXCEPT !.templates = FilterOut(@, r.id)]
       IN  IF ok
           THEN /\ server' = [server EXCEPT
                                !.templates = FilterOut(@, r.id)]
                /\ manager' = Showing(m, IF Len(remaining) > 0
                                         THEN remaining[1] ELSE Null)
           ELSE UNCHANGED <<manager, server>>
    /\ pending' = Without(pending, i)
    /\ UNCHANGED ManagerFrame

\* the component is mounted: its effect has called loadTemplates
InitManager ==
    /\ AdvisorIdle
    /\ panel = Unmounted
    /\ cards = Unmounted
    /\ chat = Unmounted
    /\ modal = Unmounted
    /\ manager = [templates |-> <<>>, selectedId |-> 0, templateDraft |-> "",
                  nameDraft |-> "", descriptionDraft |-> "", loading |-> TRUE]
    /\ pending = <<[api |-> "getPromptTemplates", selectedId |-> 0]>>
    /\ \E ts \in {<<Template(1, "true", "default", "trade"),
                    Template(2, "false", "mine", "hedge"),
                    Template(3, "false", "copy", "trade")>>,
                  <<Template(2, "false", "mine", "hedge"),
                    Template(1, "true", "default", "trade")>>,
                  <<>>} :
          server = [templates |-> ts, requests |-> 0]

NextManager ==
    \/ \E i \in 1..Len(pending) : \E ok \in BOOLEAN : TemplatesRespond(i, ok)
    \/ \E id \in 1..3 : handleSelectTemplate(id)
    \/ \E f \in {"templateDraft", "nameDraft", "descriptionDraft"} :
          EditDraft(f, "edited")
    \/ \E confirmed \in BOOLEAN :
          server.requests < MaxDeletes /\ ClickDeleteTemplate(confirmed)
    \/ \E i \in 1..Len(pending) : \E ok \in BOOLEAN :
          DeleteTemplateResponds(i, ok)

SpecManager == InitManager /\ [][NextManager]_vars

-----------------------------------------------------------------------------
(* C23: deleting a template *)

\* a deletePromptTemplate request is sent in this step
DeleteSent ==
    /\ Len(pending') = Len(pending) + 1
    /\ pending'[Len(pending')].api = "deletePromptTemplate"

\* C23: deletePromptTemplate is called only for the selected template, and
\* never for a template whose isSystem is 'true'; when the user declines
\* the confirmation no request is sent; when no request is sent,
\* handleDeleteTemplate leaves the template list, the selected id and the
\* three drafts unchanged.
C23_DeleteGuarded ==
    [][/\ DeleteSent =>
            LET tpl == Find(manager.templates, pending'[Len(pending')].id)
            IN  /\ tpl # Null
                /\ tpl.id = manager.selectedId
                /\ tpl.isSystem # "true"
       /\ \A confirmed \in BOOLEAN :
            (/\ handleDeleteTemplate(confirmed)
             /\ \/ ~confirmed
                \/ SelectedTemplate(manager) = Null
                \/ SelectedTemplate(manager).isSystem = "true")
            => /\ ~DeleteSent
               /\ pending' = pending
               /\ manager'.templates = manager.templates
               /\ manager'.selectedId = manager.selectedId
               /\ manager'.templateDraft = manager.templateDraft
               /\ manager'.nameDraft = manager.nameDraft
               /\ manager'.descriptionDraft = manager.descriptionDraft]_vars

\* the deletion of the user's template 2 is awaited while the system
\* template 1 is still in the list and edited drafts are shown
C23_Witness ==
    /\ manager # Unmounted
    /\ Len(pending) = 1
    /\ pending[1].api = "deletePromptTemplate"
    /\ pending[1].id = 2
    /\ manager.selectedId = 2
    /\ manager.nameDraft = "edited"
    /\ Find(manager.templates, 1) # Null
    /\ Find(manager.templates, 1).isSystem = "true"

-----------------------------------------------------------------------------
(* AiPromptChatModal: conversations, messages and prompt versions.  A       *)
(* currentConversationId of 0 stands for null, a promptResult of "" for    *)
(* none; selectedPromptIndex counts from 0 as in the source.               *)

MaxSends == 1

\* requests awaited at once when the user asks for one more
MaxInFlight == 2

Message(id, role, content, promptResult) ==
    [id |-> id, role |-> role, content |-> content,
     promptResult |-> promptResult]

\* the prompts of the assistant's messages, oldest first
ExtractPrompts(msgs) ==
    LET found == SelectSeq(msgs, LAMBDA m :
                     m.role = "assistant" /\ m.promptResult # "")
    IN  [k \in 1..Len(found) |->
            [id |-> found[k].id, content |-> found[k].promptResult]]

LatestIndex_mut(prompts, index) == index

\* the latest version is selected when there is one
LatestIndex(prompts, index) ==
    IF Len(prompts) > 0 THEN Len(prompts) - 1 ELSE index

\* the messages stored by the server, over all conversations
RECURSIVE MessageCount(_)
MessageCount(conversations) ==
    IF conversations = <<>> THEN 0
    ELSE Len(Head(conversations)) + MessageCount(Tail(conversations))

\* Date.now() of the n-th send: later than every id the server gives
Now(n) == 1000 + n

ChatFrame == <<advisor, panel, cards, manager, modal>>

ConversationsRequest == [api |-> "conversations"]

MessagesRequest(conversationId) ==
    [api |-> "messages", conversationId |-> conversationId]

\* the effect on currentConversationId: a new non-null id loads its messages
ConversationEffect(before, after) ==
    IF after # before /\ after # 0 THEN <<MessagesRequest(after)>> ELSE <<>>

\* GET /api/prompts/ai-conversations is answered: the rest of
\* loadConversations
ConversationsRespond(i, outcome) ==
    /\ i \in 1..Len(pending)
    /\ pending[i].api = "conversations"
    /\ chat' = [chat EXCEPT
          !.loadingConversations = FALSE,
          !.conversations = IF outcome = "ok"
                            THEN [c \in 1..Len(server.conversations) |-> c]
                            ELSE @,
          !.open = IF outcome = "403" THEN FALSE ELSE @]
    /\ pending' = Without(pending, i)
    /\ UNCHANGED server
    /\ UNCHANGED ChatFrame

startNewConversation ==
    /\ chat.open
    /\ chat' = [chat EXCEPT !.currentConversationId = 0, !.messages = <<>>,
                            !.extractedPrompts = <<>>,
                            !.selectedPromptIndex = 0]
    /\ UNCHANGED <<pending, server>>
    /\ UNCHANGED ChatFrame

\* the user picks a listed conversation in the Select
SelectConversation(id) ==
    /\ chat.open
    /\ ~chat.loadingConversations
    /\ \E k \in 1..Len(chat.conversations) : chat.conversations[k] = id
    /\ id # chat.currentConversationId
    /\ chat' = [chat EXCEPT !.currentConversationId = id]
    /\ pending' = pending \o ConversationEffect(chat.currentConversationId, id)
    /\ UNCHANGED server
    /\ UNCHANGED ChatFrame

\* GET .../messages is answered: the rest of loadMessages
MessagesRespond(i, ok) ==
    /\ i \in 1..Len(pending)
    /\ pending[i].api = "messages"
    /\ LET msgs == server.conversations[pending[i].conversationId]
           prompts == ExtractPrompts(msgs)
       IN  chat' = IF ok
                   THEN [chat EXCEPT
                           !.messages = msgs,
                           !.extractedPrompts = prompts,
                           !.selectedPromptIndex = LatestIndex(prompts, @)]
                   ELSE chat
    /\ pending' = Without(pending, i)
    /\ UNCHANGED server
    /\ UNCHANGED ChatFrame

TypeMessage(text) ==
    /\ chat.open
    /\ ~chat.loading
    /\ chat' = [chat EXCEPT !.userInput = text]
    /\ UNCHANGED <<pending, server>>
    /\ UNCHANGED ChatFrame

\* sendMessage up to the await, from the Send button or the Enter key
sendMessage ==
    /\ chat.open
    /\ ~chat.loading
    /\ IF Trim(chat.userInput) = <<>>
       THEN UNCHANGED <<chat, pending, server>>
       ELSE LET tempUserMsg == Message(Now(server.requests), "user",
                                       Trim(chat.userInput), "")
            IN  /\ chat' = [chat EXCEPT
                              !.userInput = <<>>,
                              !.loading = TRUE,
                              !.messages = Append(@, tempUserMsg)]
                /\ pending' = Append(pending,
                      [api |-> "chat",
                       conversationId |-> chat.currentConversationId,
                       tempUserMsg |-> tempUserMsg])
                /\ server' = [server EXCEPT !.requests = @ + 1]
    /\ UNCHANGED ChatFrame

Succeeded(outcome) == outcome \in {"prompt", "plain"}

\* the conversation the server files the message under
Filed(r) ==
    IF r.conversationId = 0 THEN Len(server.conversations) + 1
    ELSE r.conversationId

\* the reply of the assistant to request r
Reply(r, outcome) ==
    Message(MessageCount(server.conversations) + 2, "assistant", <<"reply">>,
            IF outcome = "prompt" THEN "generated" ELSE "")

\* POST /api/prompts/ai-chat is answered or fails: the rest of sendMessage
ChatResponds(i, outcome) ==
    /\ i \in 1..Len(pending)
    /\ pending[i].api = "chat"
    /\ LET r == pending[i]
           tempUserMsg == r.tempUserMsg
           assistantMsg == Reply(r, outcome)
           stored == <<[tempUserMsg EXCEPT
                          !.id = MessageCount(server.conversations) + 1],
                       assistantMsg>>
           isNew == r.conversationId = 0
           prompts == IF outcome = "prompt"
                      THEN Append(chat.extractedPrompts,
                                  [id |-> assistantMsg.id,
                                   content |-> assistantMsg.promptResult])
                      ELSE chat.extractedPrompts
           done == [chat EXCEPT !.loading = FALSE]
       IN  IF Succeeded(outcome)
           THEN /\ server' = [server EXCEPT !.conversations =
                                IF isNew THEN Append(@, stored)
                                ELSE [@ EXCEPT ![Filed(r)] = @ \o stored]]
                /\ chat' = [done EXCEPT
                      !.currentConversationId =
                          IF isNew THEN Filed(r) ELSE @,
                      !.loadingConversations = IF isNew THEN TRUE ELSE @,
                      !.messages = FilterOut(@, tempUserMsg.id)
                                       \o <<tempUserMsg, assistantMsg>>,
                      !.extractedPrompts = prompts,
                      !.selectedPromptIndex =
                          IF outcome = "prompt" THEN Len(prompts) - 1 ELSE @]
                /\ pending' = Without(pending, i)
                      \o (IF isNew
                          THEN <<ConversationsRequest>>
                                 \o ConversationEffect(
                                      chat.currentConversationId, Filed(r))
                          ELSE <<>>)
           ELSE /\ chat' = IF outcome = "403"
                           THEN [done EXCEPT !.open = FALSE]
                           ELSE [done EXCEPT !.messages =
                                    FilterOut(@, tempUserMsg.id)]
                /\ pending' = Without(pending, i)
                /\ UNCHANGED server
    /\ UNCHANGED ChatFrame

PromptsBarShown == chat.open /\ Len(chat.extractedPrompts) > 1

ClickPrev ==
    /\ PromptsBarShown
    /\ chat.selectedPromptIndex # 0
    /\ chat' = [chat EXCEPT !.selectedPromptIndex = Max(0, @ - 1)]
    /\ UNCHANGED <<pending, server>>
    /\ UNCHANGED ChatFrame

ClickNext ==
    /\ PromptsBarShown
    /\ chat.selectedPromptIndex # Len(chat.extractedPrompts) - 1
    /\ chat' = [chat EXCEPT !.selectedPromptIndex =
                   Min(Len(chat.extractedPrompts) - 1, @ + 1)]
    /\ UNCHANGED <<pending, server>>
    /\ UNCHANGED ChatFrame

\* the parent opens the modal again: the effect on open loads the
\* conversations; the component kept its state while closed
OpenModal ==
    /\ ~chat.open
    /\ chat' = [chat EXCEPT !.open = TRUE, !.loadingConversations = TRUE]
    /\ pending' = Append(pending, ConversationsRequest)
    /\ UNCHANGED server
    /\ UNCHANGED ChatFrame

\* the two conversations the server holds at the start
History ==
    <<<<Message(1, "user", <<"a">>, ""),
        Message(2, "assistant", <<"reply">>, "first"),
        Message(3, "user", <<"b">>, ""),
        Message(4, "assistant", <<"reply">>, "second")>>,
      <<Message(5, "user", <<"c">>, ""),
        Message(6, "assistant", <<"reply">>, "")>>>>

\* the modal has been opened with one AI trader to select
InitChat ==
    /\ AdvisorIdle
    /\ panel = Unmounted
    /\ cards = Unmounted
    /\ manager = Unmounted
    /\ modal = Unmounted
    /\ chat = [open |-> TRUE, conversations |-> <<>>,
               loadingConversations |-> TRUE, currentConversationId |-> 0,
               messages |-> <<>>, userInput |-> <<>>, loading |-> FALSE,
               extractedPrompts |-> <<>>, selectedPromptIndex |-> 0]
    /\ pending = <<ConversationsRequest>>
    /\ server = [conversations |-> History, requests |-> 0]

Outcomes == {"prompt", "plain", "failed", "403", "500", "network"}

NextChat ==
    \/ \E i \in 1..Len(pending) : \E outcome \in {"ok", "403", "500"} :
          ConversationsRespond(i, outcome)
    \/ startNewConversation
    \/ \E id \in 1..(Len(History) + MaxSends) :
          Len(pending) < MaxInFlight /\ SelectConversation(id)
    \/ \E i \in 1..Len(pending) : \E ok \in BOOLEAN : MessagesRespond(i, ok)
    \/ \E text \in {<<" ">>, <<"h", "i", " ">>} : TypeMessage(text)
    \/ server.requests < MaxSends /\ sendMessage
    \/ \E i \in 1..Len(pending) : \E outcome \in Outcomes :
          ChatResponds(i, outcome)
    \/ ClickPrev
    \/ ClickNext
    \/ Len(pending) < MaxInFlight /\ OpenModal

SpecChat == InitChat /\ [][NextChat]_vars

-----------------------------------------------------------------------------
(* C24: the optimistic user message of sendMessage *)

\* C24: when a send does not succeed (network error, non-OK status
\* including 403, success = false) the optimistically added user message
\* is removed and the other messages are kept; when it succeeds the list
\* ends with that user message followed by the assistant's reply.
C24_OptimisticRemoved ==
    [][\A i \in 1..Len(pending) : \A outcome \in Outcomes :
          ChatResponds(i, outcome) =>
             LET tempUserMsg == pending[i].tempUserMsg
                 n == Len(chat'.messages)
             IN  IF Succeeded(outcome)
                 THEN /\ n >= 2
                      /\ chat'.messages[n - 1] = tempUserMsg
                      /\ chat'.messages[n] = Reply(pending[i], outcome)
                 ELSE /\ chat'.messages = FilterOut(chat.messages,
                                                    tempUserMsg.id)
                      /\ \A k \in 1..n : chat'.messages[k] # tempUserMsg]_vars

\* the same without the 403 answer: every other failure removes the
\* optimistic message
C24_RemovedUnless403 ==
    [][\A i \in 1..Len(pending) : \A outcome \in Outcomes \ {"403"} :
          ChatResponds(i, outcome) =>
             LET tempUserMsg == pending[i].tempUserMsg
                 n == Len(chat'.messages)
             IN  IF Succeeded(outcome)
                 THEN /\ n >= 2
                      /\ chat'.messages[n - 1] = tempUserMsg
                      /\ chat'.messages[n] = Reply(pending[i], outcome)
                 ELSE /\ chat'.messages = FilterOut(chat.messages,
                                                    tempUserMsg.id)
                      /\ \A k \in 1..n : chat'.messages[k] # tempUserMsg]_vars

-----------------------------------------------------------------------------
(* C25: the private key typed into a WalletCard *)

\* a save attempt of the card of environment e completes in this step:
\* validation rejects the input, the server returns an error, or the
\* wallet was configured and reloaded
SaveCompleted(e) ==
    \/ ClickSave(e) /\ pending' = pending
    \/ \E i \in 1..Len(pending) : \E outcome \in {"rejected", "error"} :
          /\ pending[i].environment = e
          /\ ConfigureResponds(i, outcome)
    \/ \E i \in 1..Len(pending) : \E ok \in BOOLEAN :
          /\ pending[i].environment = e
          /\ pending[i].caller = "save"
          /\ LoadResponds(i, ok)

\* C25: once a save attempt has completed (the wallet was configured,
\* validation rejected the input, or the server returned an error) or the
\* edit was cancelled, the apiPrivateKey state of the card is the empty
\* string.
C25_KeyCleared ==
    [][\A e \in Environments :
          (ClickCancel(e) \/ SaveCompleted(e))
             => cards'[e].apiPrivateKey = <<>>]_vars

\* a wallet was saved with a key and maximum leverage 50, and reloaded
C25_Witness ==
    /\ panel # Unmounted
    /\ pending = <<>>
    /\ ~panel.loading
    /\ panel.testnetWallet # Null
    /\ panel.testnetWallet.maxLeverage = 50
    /\ server.requests = 1
    /\ ~cards.testnet.isEditing
    /\ cards.testnet.apiPrivateKey = <<>>

-----------------------------------------------------------------------------
(* ExchangeModal and the exchange context it reads.  picked remembers the   *)
(* exchange the user picked since the selection was last reset.            *)

MaxSelects == 2

ExchangeIds == {"hyperliquid", "binance", "aster"}

DEFAULT_EXCHANGE == "hyperliquid"

ModalFrame == <<advisor, panel, cards, manager, chat>>

ResetSelection_mut(m) == [m EXCEPT !.picked = "none"]

\* the effect on [isOpen, currentExchange]
ResetSelection(m) ==
    IF m.isOpen
    THEN [m EXCEPT !.selectedExchange = m.currentExchange,
                   !.hasChanges = FALSE, !.picked = "none"]
    ELSE m

\* the parent opens the modal
OpenExchangeModal ==
    /\ ~modal.isOpen
    /\ modal' = ResetSelection([modal EXCEPT !.isOpen = TRUE])
    /\ UNCHANGED <<pending, server>>
    /\ UNCHANGED ModalFrame

\* the user clicks the card of an exchange
handleRadioChange(exchangeId) ==
    /\ modal.isOpen
    /\ modal' = IF modal.exchanges[exchangeId].selectable
                THEN [modal EXCEPT
                        !.selectedExchange = exchangeId,
                        !.hasChanges = exchangeId # modal.currentExchange,
                        !.picked = exchangeId]
                ELSE modal
    /\ UNCHANGED <<pending, server>>
    /\ UNCHANGED ModalFrame

\* the Save and Cancel buttons of the bar are shown and enabled
BarEnabled == modal.isOpen /\ modal.hasChanges /\ ~modal.isLoading

\* the guard of handleSave
MaySave(m) == m.hasChanges /\ m.selectedExchange # m.currentExchange

\* handleSave up to the await
handleSave ==
    /\ BarEnabled
    /\ IF MaySave(modal)
       THEN /\ pending' = Append(pending, [api |-> "selectExchange",
                                           id |-> modal.selectedExchange])
            /\ server' = [server EXCEPT !.requests = @ + 1]
       ELSE UNCHANGED <<pending, server>>
    /\ UNCHANGED modal
    /\ UNCHANGED ModalFrame

\* selectExchange returns, having changed the current exchange or not, or
\* throws: the rest of handleSave
SelectExchangeReturns(i, outcome) ==
    /\ i \in 1..Len(pending)
    /\ pending[i].api = "selectExchange"
    /\ modal' =
         IF outcome = "throws" THEN modal
         ELSE [modal EXCEPT
                 !.currentExchange = IF outcome = "changed"
                                     THEN pending[i].id ELSE @,
                 !.hasChanges = FALSE,
                 !.isOpen = FALSE]
    /\ pending' = Without(pending, i)
    /\ UNCHANGED server
    /\ UNCHANGED ModalFrame

\* Cancel in the bar, or the X in the header
handleCancel ==
    /\ modal.isOpen
    /\ modal' = [modal EXCEPT !.selectedExchange = modal.currentExchange,
                              !.hasChanges = FALSE,
                              !.picked = "none",
                              !.isOpen = FALSE]
    /\ UNCHANGED <<pending, server>>
    /\ UNCHANGED ModalFrame

\* the context changes the current exchange
CurrentChanges(id) ==
    /\ id # modal.currentExchange
    /\ modal' = ResetSelection([modal EXCEPT !.currentExchange = id])
    /\ UNCHANGED <<pending, server>>
    /\ UNCHANGED ModalFrame

\* the context changes which exchanges can be selected, or isLoading
ContextChanges(id, selectable, isLoading) ==
    /\ modal' = [modal EXCEPT !.exchanges[id].selectable = selectable,
                              !.isLoading = isLoading]
    /\ modal' # modal
    /\ UNCHANGED <<pending, server>>
    /\ UNCHANGED ModalFrame

ExchangeInfo(selectable) == [selectable |-> selectable]

\* the modal is mounted closed
InitModal ==
    /\ AdvisorIdle
    /\ panel = Unmounted
    /\ cards = Unmounted
    /\ manager = Unmounted
    /\ chat = Unmounted
    /\ \E binance \in BOOLEAN :
          modal = [isOpen |-> FALSE,
                   currentExchange |-> DEFAULT_EXCHANGE,
                   exchanges |-> [hyperliquid |-> ExchangeInfo(TRUE),
                                  binance |-> ExchangeInfo(binance),
                                  aster |-> ExchangeInfo(FALSE)],
                   isLoading |-> FALSE,
                   selectedExchange |-> DEFAULT_EXCHANGE,
                   hasChanges |-> FALSE,
                   picked |-> "none"]
    /\ pending = <<>>
    /\ server = NoServer

NextModal ==
    \/ OpenExchangeModal
    \/ \E id \in ExchangeIds : handleRadioChange(id)
    \/ server.requests < MaxSelects /\ handleSave
    \/ \E i \in 1..Len(pending) :
          \E outcome \in {"changed", "unchanged", "throws"} :
             SelectExchangeReturns(i, outcome)
    \/ handleCancel
    \/ \E id \in ExchangeIds : CurrentChanges(id)
    \/ \E id \in ExchangeIds : \E selectable, isLoading \in BOOLEAN :
          ContextChanges(id, selectable, isLoading)

SpecModal == InitModal /\ [][NextModal]_vars

-----------------------------------------------------------------------------
(* C26: what ExchangeModal asks of selectExchange *)

\* selectExchange is called in this step
SelectSent ==
    /\ Len(pending') = Len(pending) + 1
    /\ pending'[Len(pending')].api = "selectExchange"

\* C26: selectExchange is called only from Save, with the exchange the
\* user picked while it was selectable and which differs from
\* currentExchange at that time; clicking an exchange that is not
\* selectable changes nothing; Cancel and reopening never call
\* selectExchange and leave the selection at currentExchange with
\* hasChanges false.
C26_SelectOnlyFromSave ==
    [][/\ SelectSent =>
            /\ handleSave
            /\ pending'[Len(pending')].id = modal.picked
            /\ pending'[Len(pending')].id # modal.currentExchange
       /\ \A id \in ExchangeIds :
            (handleRadioChange(id) /\ ~modal.exchanges[id].selectable)
               => modal' = modal /\ pending' = pending
       /\ (handleCancel \/ OpenExchangeModal) =>
            /\ ~SelectSent
            /\ pending' = pending
            /\ modal'.selectedExchange = modal'.currentExchange
            /\ ~modal'.hasChanges]_vars

\* binance was picked and saved while hyperliquid was current, and two
\* calls are awaited
C26_Witness ==
    /\ modal # Unmounted
    /\ Len(pending) = 2
    /\ pending[1] = [api |-> "selectExchange", id |-> "binance"]
    /\ modal.currentExchange = "hyperliquid"
    /\ modal.selectedExchange = "binance"
    /\ ~modal.exchanges["binance"].selectable

-----------------------------------------------------------------------------
(* C27: the leverage settings of a configureAccountWallet request *)

\* C27: every configureAccountWallet request carries leverage settings
\* with 1 <= defaultLeverage <= maxLeverage <= 50.
C27_LeverageOrdered ==
    \A i \in 1..Len(pending) :
       pending[i].api = "configureAccountWallet" =>
          /\ 1 <= pending[i].data.defaultLeverage
          /\ pending[i].data.defaultLeverage <= pending[i].data.maxLeverage
          /\ pending[i].data.maxLeverage <= 50

\* the part handleSaveWallet checks: the maximum leverage is in 1..50
C27_MaxLeverageInRange ==
    \A i \in 1..Len(pending) :
       pending[i].api = "configureAccountWallet" =>
          /\ 1 <= pending[i].data.maxLeverage
          /\ pending[i].data.maxLeverage <= 50

-----------------------------------------------------------------------------
(* C28: answers that arrive after the user changed conversation *)

\* every element of the sequence after is an element of before
NothingNew(before, after) ==
    \A k \in 1..Len(after) : \E j \in 1..Len(before) : after[k] = before[j]

\* the i-th awaited request is answered in this step, for a conversation
\* that is not the current one
StaleAnswer(i) ==
    /\ pending[i].api \in {"messages", "chat"}
    /\ pending[i].conversationId # chat.currentConversationId
    /\ \/ \E ok \in BOOLEAN : MessagesRespond(i, ok)
       \/ \E outcome \in Outcomes : ChatResponds(i, outcome)

\* C28: a loadMessages or sendMessage answer for conversation A that
\* arrives after the user switched to conversation B or started a new
\* conversation never replaces or extends the messages and prompt
\* versions shown, and does not change the current conversation.
C28_StaleAnswerIgnored ==
    [][\A i \in 1..Len(pending) :
          StaleAnswer(i) =>
             /\ NothingNew(chat.messages, chat'.messages)
             /\ NothingNew(chat.extractedPrompts, chat'.extractedPrompts)
             /\ chat'.currentConversationId
                   = chat.currentConversationId]_vars

-----------------------------------------------------------------------------
(* C29: the selected prompt version *)

\* a conversation with prompts is loaded, or a reply carrying a prompt is
\* received, in this step
PromptsArrive ==
    \E i \in 1..Len(pending) :
       \/ /\ MessagesRespond(i, TRUE)
          /\ pending[i].api = "messages"
          /\ ExtractPrompts(server.conversations[pending[i].conversationId])
                # <<>>
       \/ ChatResponds(i, "prompt")

IndexInRange(c) ==
    Len(c.extractedPrompts) > 0 =>
       /\ 0 <= c.selectedPromptIndex
       /\ c.selectedPromptIndex < Len(c.extractedPrompts)

\* C29: whenever extractedPrompts is not empty,
\* 0 <= selectedPromptIndex < extractedPrompts.length; right after a
\* conversation with prompts is loaded or a reply carrying a prompt is
\* received, the selected index is the last one.
C29_IndexInRange ==
    /\ [](chat # Unmounted => IndexInRange(chat))
    /\ [][PromptsArrive =>
            /\ Len(chat'.extractedPrompts) > 0
            /\ chat'.selectedPromptIndex
                  = Len(chat'.extractedPrompts) - 1]_vars

\* three versions are listed and the user went back to the first: the
\* two of conversation 1 and the one of the reply
C29_Witness ==
    /\ chat # Unmounted
    /\ Len(chat.extractedPrompts) = 3
    /\ chat.selectedPromptIndex = 0
    /\ chat.currentConversationId = 1
    /\ pending = <<>>

-----------------------------------------------------------------------------
(* C30: the loading flag shared by the operations of WalletConfigPanel *)

\* a load, save or delete request of the panel awaits its response
Outstanding ==
    \E i \in 1..Len(pending) :
       pending[i].api \in {"getAccountWallet", "configureAccountWallet",
                           "deleteAccountWallet"}

\* C30: the loading flag is true in every state in which a load, save or
\* delete request of the panel awaits its response, and false only when
\* none does.
C30_LoadingWhileOutstanding ==
    panel # Unmounted => (panel.loading <=> Outstanding)

====
